---------------------------- MODULE Spec2Model ----------------------------
(***************************************************************************)
(* A model of the orchestration core of octofriend:                        *)
(*   - the Trajectory Arc Engine (source/agent/trajectory-arc.ts,          *)
(*     trajectoryArc), specification SpecArc;                              *)
(*   - the Subagent Delegation Service (source/tools/tool-defs/task.ts),   *)
(*     with the Session Store and the Live Progress Registry it uses,      *)
(*     specification SpecTask.                                             *)
(* Every action is one synchronous stretch of the code: from one await to  *)
(* the next.  The abort signal is an environment action that may fire      *)
(* between any two stretches.                                              *)
(***************************************************************************)
EXTENDS Integers, Sequences, FiniteSets, TLC

VARIABLES
    \* ---- Trajectory Arc Engine
    aborted,        \* abortSignal.aborted of the top-level arc call
    stack,          \* the chain of nested trajectoryArc invocations, caller first
    result,         \* what the top-level call returned (or threw)
    events,         \* the handler callbacks the innermost arc invoked so far, in order
    retryTools,     \* number of handler.retryTool callbacks over the whole call
    appended,       \* history: every IR item an arc appended, in temporal order
    invocations,    \* history: number of trajectoryArc invocations so far
    onlyMalformed,  \* history: every model turn so far ended in a malformed tool call
    budget0,        \* the retryBudget the top-level call was given
    \* ---- Subagent Delegation Service
    runs,           \* Live Progress Registry: toolCallId -> LiveTaskRunState
    taskSessions,   \* Session Store: insertion-ordered list of <<key, session object>>
    heap,           \* the TaskSession objects ever created (index = object identity)
    call,           \* the call of the task tool in progress, or the last one made
    used,           \* tasks planned and arcs run so far, over all calls
    \* ---- Pure functions
    fnIn,           \* the arguments a function is applied to
    fnOut,          \* <<its value>> once applied, <<>> before
    \* ---- Orchestration State Machine
    ui,             \* the state of the orchestration store
    \* ---- History of the orchestration store
    hist,           \* the history, the composer and the calls that write them
    \* ---- Live progress of a delegation call
    clock,          \* Date.now()
    poll            \* the runTool call that polls the registry, and what it published

arcVars == <<aborted, stack, result, events, retryTools, appended, invocations,
            onlyMalformed, budget0>>
taskVars == <<runs, taskSessions, heap, call, used>>
fnVars == <<fnIn, fnOut>>
uiVars == <<ui>>
histVars == <<hist>>
liveVars == <<clock, poll>>
vars == <<aborted, stack, result, events, retryTools, appended, invocations,
          onlyMalformed, budget0, runs, taskSessions, heap, call, used, fnIn, fnOut, ui,
          hist, clock, poll>>

(***************************************************************************)
(* Bounds of the model.                                                    *)
(***************************************************************************)
\* The largest initial retryBudget explored (the code's default is 8).
MaxBudget == 2

\* The number of delegated tasks explored, over all calls of the task tool.
MaxTasks == 2

\* The number of arcs the subagents run, over all calls.
MaxArcs == 2

\* The number of progress events of a kind explored in one arc invocation.
MaxProgress == 1

\* The number of calls of input, retryFrom and runTool the interface starts.
MaxCalls == 3

\* The number of operations applied to a started run of the registry.
MaxOps == 3

\* By how many items a history that is compacted exceeds the item ceiling.
HistoryOver == 2

\* The largest number of parallel_tasks of a call that is validated.
MaxParallel == 3

\* The constants of the code.
MAX_TRACE_CHARS == 32000
MAX_RESULT_CHARS == 8000
MAX_TASK_SESSIONS == 48
MAX_SUBAGENT_HISTORY_ITEMS == 80
MAX_SUBAGENT_HISTORY_CHARS == 140000
MAX_SUBAGENT_TOOL_CONTENT_CHARS == 24000
MAX_SUBAGENT_ASSISTANT_CONTENT_CHARS == 24000
\* The lengths of "\n... (truncated)" and of
\* "\n... (truncated for subagent context)".
LiveMarkerChars == 16
ToolMarkerChars == 37
TRACE_SUMMARY_CHARS == 12000
SINGLE_TRACE_CHARS == 4000
SINGLE_RESULT_CHARS == 2000
PARALLEL_TRACE_CHARS == 3000
PARALLEL_RESULT_CHARS == 1500

(***************************************************************************)
(*                       TRAJECTORY ARC ENGINE                             *)
(***************************************************************************)

\* An IR item: its role, the arc invocation (1 = top-level) that produced it,
\* and what else the code reads of it (the tool named by an assistant item's
\* toolCall, the buffers a synthesized partial item was made of).
Item(role, arc, info) == [role |-> role, arc |-> arc, info |-> info]

\* The messages the top-level arc is called with.
InitialMessages == <<Item("user", 0, "")>>

NoFinish == [reason |-> "none", irs |-> <<>>, tool |-> "", args |-> "", detail |-> ""]

\* abort(irs)
abort(irs) == [reason |-> "abort", irs |-> irs, tool |-> "", args |-> "", detail |-> ""]

RequestError(irs, msg) ==
    [reason |-> "request-error", irs |-> irs, tool |-> "", args |-> "", detail |-> msg]

NeedsResponse(irs) ==
    [reason |-> "needs-response", irs |-> irs, tool |-> "", args |-> "", detail |-> ""]

RequestTool(irs, tool, args) ==
    [reason |-> "request-tool", irs |-> irs, tool |-> tool, args |-> args, detail |-> ""]

\* An exception leaving trajectoryArc (no Finish is returned).
Thrown(what) == [reason |-> "thrown", irs |-> <<>>, tool |-> "", args |-> "", detail |-> what]

\* One invocation of trajectoryArc: its parameters and locals.
NewFrame(retryBudget, messages) ==
    [retryBudget |-> retryBudget,
     messages    |-> messages,      \* messagesCopy
     irs         |-> <<>>,          \* irs
     pc          |-> "enter",
     tool        |-> "",            \* lastIr.toolCall.function.name
     ended       |-> "none",        \* how the turn ended when it needed recovery
     finish      |-> NoFinish]

Top == stack[Len(stack)]
Depth == Len(stack)
Callers == SubSeq(stack, 1, Len(stack) - 1)

\* The model turn's possible outputs (result.output) for arc number n.
Outputs(n) ==
    { <<>>,
      <<Item("tool-malformed", n, "")>>,
      <<Item("assistant", n, "")>>,
      <<Item("assistant", n, "edit")>>,
      <<Item("assistant", n, "shell")>> }

\* The token buffers when the model turn returns: which of them are non-empty.
Buffers == [content : BOOLEAN, reasoning : BOOLEAN, tool : BOOLEAN]

BufferInfo(buffer) ==
    IF buffer.tool THEN (IF buffer.reasoning THEN "content+partial_tool_call+reasoning"
                                             ELSE "content+partial_tool_call")
    ELSE IF buffer.reasoning THEN "content+reasoning" ELSE "content"

\* maybeBufferedMessage(): the arc's output so far plus one synthesized
\* assistant item, or nothing at all when every buffer is empty.
maybeBufferedMessage(irs, buffer, n) ==
    IF buffer.content \/ buffer.reasoning \/ buffer.tool
    THEN Append(irs, Item("assistant", n, BufferInfo(buffer)))
    ELSE <<>>

\* The three tests `retryBudget <= 0`.
BudgetExhaustedStrict(kind, retryBudget) ==
    IF kind = "malformed" THEN retryBudget < 0 ELSE retryBudget <= 0

BudgetUncheckedForStale(kind, retryBudget) ==
    IF kind = "stale" THEN FALSE ELSE retryBudget <= 0

BudgetExhausted(kind, retryBudget) == retryBudget <= 0

\* The budget handed to the recursive call: `retryBudget: retryBudget - 1`.
RetryBudgetNotThreaded(kind, retryBudget) ==
    IF kind = "toolerr" THEN retryBudget ELSE retryBudget - 1

NextRetryBudget(kind, retryBudget) == retryBudget - 1

\* The message of the request-error that ends an exhausted arc.
ExhaustedMessage(kind) ==
    IF kind = "malformed" THEN "Too many malformed tool retries in a single response arc."
    ELSE "Too many tool retry attempts in a single response arc."

\* The end of a turn that needs recovery: give up when the budget is
\* exhausted, otherwise emit retryTool and recurse.  `retryIrs` is what the
\* retry is told (and what an exhausted arc returns); the Finish later built
\* from the retry's result starts from the frame's own `irs`.
EndTurn(f, kind, retryIrs) ==
    IF BudgetExhausted(kind, f.retryBudget)
    THEN [frames |-> <<[f EXCEPT !.pc = "returned", !.ended = kind,
                                 !.finish = RequestError(retryIrs, ExhaustedMessage(kind))]>>,
          retry  |-> FALSE]
    ELSE [frames |-> <<[f EXCEPT !.pc = "retrying", !.ended = kind],
                       NewFrame(NextRetryBudget(kind, f.retryBudget),
                                f.messages \o retryIrs)>>,
          retry  |-> TRUE]

Emit(type) == Append(events, type)

Returned(f, fin) == [f EXCEPT !.pc = "returned", !.finish = fin]

SetTop(f) == Callers \o <<f>>

\* A variant that reports startResponse ahead of the events of compaction.
AfterCompactionResponseFirst(f, ev) ==
    IF aborted
    THEN [frame |-> Returned(f, abort(<<>>)), events |-> ev]
    ELSE [frame |-> [f EXCEPT !.pc = "running"],
          events |-> <<"startResponse">> \o ev]

\* After compaction: `if (abortSignal.aborted) return abort([])`, then
\* handler.startResponse and the await of run().
AfterCompaction(f, ev) ==
    IF aborted
    THEN [frame |-> Returned(f, abort(<<>>)), events |-> ev]
    ELSE [frame |-> [f EXCEPT !.pc = "running"],
          events |-> Append(ev, "startResponse")]

ArcRunning == stack # <<>>

\* What validateTool can do for a call of `tool`: FileOutdatedError comes from
\* the file tracker, for a tool that modifies a tracked file.
ValidateOutcomes(tool) ==
    IF tool = "edit" THEN {"ok", "FileOutdatedError", "ToolError", "other error"}
    ELSE {"ok", "ToolError", "other error"}

\* The abort signal fires while the arc call is outstanding.
AbortFires ==
    /\ ArcRunning
    /\ ~aborted
    /\ aborted' = TRUE
    /\ UNCHANGED <<stack, result, events, retryTools, appended, invocations,
                   onlyMalformed, budget0>>
    /\ UNCHANGED <<taskVars, fnVars, uiVars, histVars, liveVars>>

\* An invocation starts: `if (abortSignal.aborted) return abort([])`, then
\* await loadTools.
ArcEnter ==
    /\ ArcRunning /\ Top.pc = "enter"
    /\ stack' = SetTop(IF aborted THEN Returned(Top, abort(<<>>))
                                  ELSE [Top EXCEPT !.pc = "compact"])
    /\ events' = <<>>
    /\ UNCHANGED <<aborted, result, retryTools, appended, invocations,
                   onlyMalformed, budget0>>
    /\ UNCHANGED <<taskVars, fnVars, uiVars, histVars, liveVars>>

\* maybeAutocompact up to its await: shouldAutoCompactHistory decides.
MaybeAutocompact ==
    /\ ArcRunning /\ Top.pc = "compact"
    /\ \E should \in BOOLEAN :
          IF should
          THEN /\ events' = Emit("startCompaction")
               /\ stack' = SetTop([Top EXCEPT !.pc = "compacting"])
          ELSE LET r == AfterCompaction(Top, events) IN
               /\ events' = r.events
               /\ stack' = SetTop(r.frame)
    /\ UNCHANGED <<aborted, result, retryTools, appended, invocations,
                   onlyMalformed, budget0>>
    /\ UNCHANGED <<taskVars, fnVars, uiVars, histVars, liveVars>>

\* The number of events of this type the innermost invocation emitted.
Emitted(type) == Cardinality({i \in 1..Len(events) : events[i] = type})

\* generateCompactionSummary streams tokens: the onTokens of maybeAutocompact
\* reports compactionProgress.
CompactionProgress ==
    /\ ArcRunning /\ Top.pc = "compacting"
    /\ Emitted("compactionProgress") < MaxProgress
    /\ events' = Emit("compactionProgress")
    /\ UNCHANGED <<aborted, stack, result, retryTools, appended, invocations,
                   onlyMalformed, budget0>>
    /\ UNCHANGED <<taskVars, fnVars, uiVars, histVars, liveVars>>

\* run() streams tokens: the onTokens of trajectoryArc reports
\* responseProgress.
ResponseProgress ==
    /\ ArcRunning /\ Top.pc = "running"
    /\ Emitted("responseProgress") < MaxProgress
    /\ events' = Emit("responseProgress")
    /\ UNCHANGED <<aborted, stack, result, retryTools, appended, invocations,
                   onlyMalformed, budget0>>
    /\ UNCHANGED <<taskVars, fnVars, uiVars, histVars, liveVars>>

\* generateCompactionSummary returns a summary, returns null, or throws.
CompactionReturns ==
    /\ ArcRunning /\ Top.pc = "compacting"
    /\ \E summary \in {"summary", "null", "throws"} :
          CASE summary = "throws" ->
                 /\ stack' = SetTop(Returned(Top, Thrown("CompactionRequestError")))
                 /\ UNCHANGED <<events, appended>>
            [] summary = "null" ->
                 LET r == AfterCompaction(Top, events) IN
                 /\ stack' = SetTop(r.frame)
                 /\ events' = r.events
                 /\ UNCHANGED appended
            [] OTHER ->
                 LET checkpoint == Item("compaction-checkpoint", Depth, "")
                     f == [Top EXCEPT !.messages = Append(@, checkpoint),
                                      !.irs = Append(@, checkpoint)]
                     r == AfterCompaction(f, Emit("compactionParsed")) IN
                 /\ stack' = SetTop(r.frame)
                 /\ events' = r.events
                 /\ appended' = Append(appended, checkpoint)
    /\ UNCHANGED <<aborted, result, retryTools, invocations, onlyMalformed, budget0>>
    /\ UNCHANGED <<taskVars, fnVars, uiVars, histVars, liveVars>>

\* The step that ends a turn needing recovery (see EndTurn).
Recover(f, kind, errorIrs) ==
    LET r == EndTurn(f, kind, f.irs \o errorIrs) IN
    /\ stack' = Callers \o r.frames
    /\ events' = IF r.retry THEN Emit("retryTool") ELSE events
    /\ retryTools' = IF r.retry THEN retryTools + 1 ELSE retryTools
    /\ invocations' = IF r.retry THEN invocations + 1 ELSE invocations

\* run() returns: the code from `if (abortSignal.aborted) return
\* abort(maybeBufferedMessage())` to the await of validateTool.
RunReturns ==
    /\ ArcRunning /\ Top.pc = "running"
    /\ \E buffer \in Buffers, success \in BOOLEAN, output \in Outputs(Depth) :
          LET f == Top
              irs == f.irs \o output
              lastIr == output[Len(output)]
          IN
          IF aborted
          THEN /\ stack' = SetTop(Returned(f, abort(maybeBufferedMessage(f.irs, buffer, Depth))))
               /\ UNCHANGED <<events, retryTools, appended, invocations, onlyMalformed>>
          ELSE IF ~success
          THEN /\ stack' = SetTop(Returned(f, RequestError(
                                    maybeBufferedMessage(f.irs, buffer, Depth), "backend")))
               /\ onlyMalformed' = FALSE
               /\ UNCHANGED <<events, retryTools, appended, invocations>>
          ELSE IF output = <<>>
          THEN /\ stack' = SetTop(Returned(f, RequestError(
                                    maybeBufferedMessage(f.irs, buffer, Depth),
                                    "No response from backend")))
               /\ onlyMalformed' = FALSE
               /\ UNCHANGED <<events, retryTools, appended, invocations>>
          ELSE IF lastIr.role = "tool-malformed"
          THEN /\ Recover([f EXCEPT !.irs = irs], "malformed", <<>>)
               /\ appended' = appended \o output
               /\ UNCHANGED onlyMalformed
          ELSE IF lastIr.info = ""
          THEN /\ stack' = SetTop(Returned([f EXCEPT !.irs = irs], NeedsResponse(irs)))
               /\ appended' = appended \o output
               /\ onlyMalformed' = FALSE
               /\ UNCHANGED <<events, retryTools, invocations>>
          ELSE /\ stack' = SetTop([f EXCEPT !.irs = irs, !.tool = lastIr.info,
                                            !.pc = "validating"])
               /\ appended' = appended \o output
               /\ onlyMalformed' = FALSE
               /\ UNCHANGED <<events, retryTools, invocations>>
    /\ UNCHANGED <<aborted, result, budget0>>
    /\ UNCHANGED <<taskVars, fnVars, uiVars, histVars, liveVars>>

\* validateTool returns or throws.
ValidateReturns ==
    /\ ArcRunning /\ Top.pc = "validating"
    /\ \E v \in ValidateOutcomes(Top.tool) :
          LET f == Top
              toolError == Item("tool-error", Depth, f.tool)
          IN
          CASE v = "ok" ->
                 /\ stack' = SetTop(Returned(f, RequestTool(f.irs, f.tool, "original")))
                 /\ UNCHANGED <<events, retryTools, appended, invocations>>
            [] v = "FileOutdatedError" ->
                 /\ stack' = SetTop([f EXCEPT !.pc = "transforming"])
                 /\ UNCHANGED <<events, retryTools, appended, invocations>>
            [] v = "other error" ->
                 /\ stack' = SetTop(Returned(f, Thrown("error")))
                 /\ UNCHANGED <<events, retryTools, appended, invocations>>
            [] OTHER ->
                 IF f.tool = "edit"
                 THEN /\ events' = Emit("autofixingDiff")
                      /\ stack' = SetTop([f EXCEPT !.pc = "autofixing"])
                      /\ UNCHANGED <<retryTools, appended, invocations>>
                 ELSE /\ Recover(f, "toolerr", <<toolError>>)
                      /\ appended' = Append(appended, toolError)
    /\ UNCHANGED <<aborted, result, onlyMalformed, budget0>>
    /\ UNCHANGED <<taskVars, fnVars, uiVars, histVars, liveVars>>

\* tryTransformFileOutdatedError returns: the file could be re-read or not.
TransformReturns ==
    /\ ArcRunning /\ Top.pc = "transforming"
    /\ \E readable \in BOOLEAN :
          LET errorIrs == IF readable THEN Item("file-outdated", Depth, Top.tool)
                                      ELSE Item("file-unreadable", Depth, Top.tool)
          IN
          /\ Recover(Top, "stale", <<errorIrs>>)
          /\ appended' = Append(appended, errorIrs)
    /\ UNCHANGED <<aborted, result, onlyMalformed, budget0>>
    /\ UNCHANGED <<taskVars, fnVars, uiVars, histVars, liveVars>>

\* A variant that requests the call with the arguments the model wrote.
AutofixedToolCallKeepsArguments(f) == RequestTool(f.irs, f.tool, "original")

\* The fix passed validateTool: `fn.arguments = {...fn.arguments, ...fix}`
\* and the Finish that requests the call.
AutofixedToolCall(f) == RequestTool(f.irs, f.tool, "fixed")

\* The autofix pass of an edit call ends: fs.readFile or autofixEdit threw
\* ("throws"), autofixEdit found no fix ("none"), or it produced a fix that
\* does ("valid") or does not ("invalid") pass validateTool.
AutofixReturns ==
    /\ ArcRunning /\ Top.pc = "autofixing"
    /\ \E fix \in {"throws", "none", "invalid", "valid"} :
          LET f == Top
              toolError == Item("tool-error", Depth, f.tool)
          IN
          IF fix # "throws" /\ aborted
          THEN /\ stack' = SetTop([Returned(f, abort(Append(SubSeq(f.irs, 1, Len(f.irs) - 1),
                                                            toolError)))
                                     EXCEPT !.ended = "toolerr-aborted"])
               /\ UNCHANGED <<events, retryTools, appended, invocations>>
          ELSE IF fix = "valid"
          THEN /\ stack' = SetTop(Returned(f, AutofixedToolCall(f)))
               /\ UNCHANGED <<events, retryTools, appended, invocations>>
          ELSE /\ Recover(f, "toolerr", <<toolError>>)
               /\ appended' = Append(appended, toolError)
    /\ UNCHANGED <<aborted, result, onlyMalformed, budget0>>
    /\ UNCHANGED <<taskVars, fnVars, uiVars, histVars, liveVars>>

\* The Finish a caller builds from its retry's result:
\* `{ type: "finish", irs: [...irs, ...retried.irs], reason: retried.reason }`.
FinishAfterRetry(f, retried) == [retried EXCEPT !.irs = f.irs \o retried.irs]

\* What the k innermost-first callers stack[k], ..., stack[1] make of `fin`:
\* each builds its Finish from its retry's; an exception passes through.
RECURSIVE Unwind(_, _)
Unwind(fin, k) ==
    IF k = 0 THEN fin
    ELSE Unwind(IF fin.reason = "thrown" THEN fin ELSE FinishAfterRetry(stack[k], fin),
                k - 1)

\* The innermost invocation returns (or throws); every caller awaiting it
\* resumes in turn, and the top-level call settles.
ArcReturn ==
    /\ ArcRunning /\ Top.pc = "returned"
    /\ result' = Unwind(Top.finish, Depth - 1)
    /\ stack' = <<>>
    /\ UNCHANGED <<aborted, events, retryTools, appended, invocations,
                   onlyMalformed, budget0>>
    /\ UNCHANGED <<taskVars, fnVars, uiVars, histVars, liveVars>>

ArcInit ==
    /\ aborted = FALSE
    /\ budget0 \in 0..MaxBudget
    /\ stack = <<NewFrame(budget0, InitialMessages)>>
    /\ result = NoFinish
    /\ events = <<>>
    /\ retryTools = 0
    /\ appended = <<>>
    /\ invocations = 1
    /\ onlyMalformed = TRUE

NextArc ==
    \/ AbortFires
    \/ ArcEnter
    \/ MaybeAutocompact
    \/ CompactionProgress
    \/ CompactionReturns
    \/ ResponseProgress
    \/ RunReturns
    \/ ValidateReturns
    \/ TransformReturns
    \/ AutofixReturns
    \/ ArcReturn

(***************************************************************************)
(*                    SUBAGENT DELEGATION SERVICE                          *)
(*                                                                         *)
(* The task tool (run, executeTaskInvocation, runSubagentUntilPause) with  *)
(* the Live Progress Registry and the Session Store.  An action is one     *)
(* stretch of the code between two suspensions (await): the abort signal   *)
(* and the sibling tasks can act between two actions, not inside one.  The *)
(* arc of a subagent is taken by what it returns or throws.  Calls of the  *)
(* tool are made one after the other, each with its own abort signal.      *)
(***************************************************************************)

\* Finite maps (JS Map / Record): functions with a growing domain.
EmptyMap == [x \in {} |-> x]

Put(m, k, v) == [x \in (DOMAIN m) \cup {k} |-> IF x = k THEN v ELSE m[x]]

Del(m, k) == [x \in (DOMAIN m) \ {k} |-> m[x]]

\* Task ids: an explicit task_id of a call, or the id derived from the tool
\* call and the position of the task in it.
NoId == <<"none", 0, 0>>

\* An error message: its text and the task id and subagent name it embeds.
\* A message counts as one character unless it is given a length.
Message(text, taskId, subagent) ==
    [text |-> text, taskId |-> taskId, subagent |-> subagent, chars |-> 1]

Sized(message, chars) == [message EXCEPT !.chars = chars]

NoMessage == Message("", NoId, "")

\* Text is a sequence of pieces: the characters lo..hi of a line, which is a
\* tag such as "[user]" and the message that follows it.  The prefixes that
\* markLiveTaskFailed writes are counted with their own characters
\* ("[task-error]\n", "Subagent task failed: "); elsewhere the characters of
\* a line are those of its message.
PrefixChars(tag) ==
    CASE tag = "[task-error]"           -> 13
      [] tag = "Subagent task failed: " -> 22
      [] OTHER                          -> 0

Piece(tag, msg, lo, hi) == [tag |-> tag, msg |-> msg, lo |-> lo, hi |-> hi]

Line(tag, msg) == Piece(tag, msg, 1, PrefixChars(tag) + msg.chars)

Chars(piece) == piece.hi - piece.lo + 1

RECURSIVE TextLength(_)
TextLength(text) ==
    IF text = <<>> THEN 0 ELSE Chars(text[1]) + TextLength(Tail(text))

\* input.slice(n): the text without its first n characters.
RECURSIVE DropChars(_, _)
DropChars(text, n) ==
    IF n <= 0 \/ text = <<>> THEN text
    ELSE IF Chars(text[1]) <= n THEN DropChars(Tail(text), n - Chars(text[1]))
    ELSE <<[text[1] EXCEPT !.lo = @ + n]>> \o Tail(text)

\* input.slice(0, n): the first n characters of the text.
RECURSIVE TakeChars(_, _)
TakeChars(text, n) ==
    IF n <= 0 \/ text = <<>> THEN <<>>
    ELSE IF Chars(text[1]) <= n
    THEN <<text[1]>> \o TakeChars(Tail(text), n - Chars(text[1]))
    ELSE <<[text[1] EXCEPT !.hi = text[1].lo + n - 1]>>

\* "... (truncated)" with its line break.
TruncationMarker == Piece("... (truncated)", NoMessage, 1, LiveMarkerChars)

\* The blank line that joins the lines of a trace.
Separator == Piece("\n\n", NoMessage, 1, 2)

\* input.trim().length > 0
NonBlank(text) == \E k \in 1..Len(text) : text[k].tag # "\n\n" /\ Chars(text[k]) > 0

(*-------------------------- Live Progress Registry -----------------------*)

\* A clamp that keeps the head of the text.
clampHead(input, maxChars) ==
    IF TextLength(input) <= maxChars THEN input
    ELSE <<TruncationMarker>> \o TakeChars(input, maxChars)

clampTail(input, maxChars) ==
    IF TextLength(input) <= maxChars THEN input
    ELSE <<TruncationMarker>> \o DropChars(input, TextLength(input) - maxChars)

makeLiveTaskID(toolCallId, index) == <<"task", toolCallId, index>>

\* now(): Date.now()
now == clock

\* A variant that makes the run with a placeholder in its order.
ensureRunWithPlaceholder(rs, toolCallId) ==
    IF toolCallId \in DOMAIN rs THEN rs
    ELSE Put(rs, toolCallId, [order |-> <<NoId>>, observations |-> EmptyMap,
                              updatedAt |-> now])

\* ensureRun: the registry with an (empty) run for toolCallId.
ensureRun(rs, toolCallId) ==
    IF toolCallId \in DOMAIN rs THEN rs
    ELSE Put(rs, toolCallId, [order |-> <<>>, observations |-> EmptyMap,
                              updatedAt |-> now])

\* touch(state)
touch(state) == [state EXCEPT !.updatedAt = now]

\* The placeholder observation of a planned task.
LiveSeed(task) ==
    [taskId       |-> task.taskId,
     subagentName |-> task.subagentName,
     description  |-> task.description,
     trace        |-> <<Line("status: running", NoMessage)>>,
     result       |-> <<Line("Subagent is running. Waiting for first tool outputs...", NoMessage)>>]

\* Object.fromEntries: of two tasks with one id, the later one stays.
LastWithId(tasks, taskId) ==
    tasks[CHOOSE k \in 1..Len(tasks) :
            /\ tasks[k].taskId = taskId
            /\ \A j \in (k + 1)..Len(tasks) : tasks[j].taskId # taskId]

startLiveTaskRun(rs, toolCallId, tasks) ==
    Put(ensureRun(rs, toolCallId), toolCallId,
        [order        |-> [k \in 1..Len(tasks) |-> tasks[k].taskId],
         observations |-> [t \in {tasks[k].taskId : k \in 1..Len(tasks)} |->
                              LiveSeed(LastWithId(tasks, t))],
         updatedAt    |-> now])

appendLiveTaskTrace(rs, toolCallId, taskId, line) ==
    LET rs1 == ensureRun(rs, toolCallId)
        state == rs1[toolCallId]
    IN  IF taskId \notin DOMAIN state.observations THEN rs1
        ELSE LET observation == state.observations[taskId]
                 next == IF NonBlank(observation.trace)
                         THEN observation.trace \o <<Separator>> \o line
                         ELSE line
             IN Put(rs1, toolCallId,
                    touch([state EXCEPT !.observations[taskId].trace =
                                            clampTail(next, MAX_TRACE_CHARS)]))

\* A variant that stamps the run also when the task is unknown.
setLiveTaskResultTouches(rs, toolCallId, taskId, res) ==
    LET rs1 == ensureRun(rs, toolCallId)
        state == rs1[toolCallId]
    IN  IF taskId \notin DOMAIN state.observations
        THEN Put(rs1, toolCallId, touch(state))
        ELSE Put(rs1, toolCallId,
                 touch([state EXCEPT !.observations[taskId].result =
                                         clampTail(res, MAX_RESULT_CHARS)]))

setLiveTaskResult(rs, toolCallId, taskId, res) ==
    LET rs1 == ensureRun(rs, toolCallId)
        state == rs1[toolCallId]
    IN  IF taskId \notin DOMAIN state.observations THEN rs1
        ELSE Put(rs1, toolCallId,
                 touch([state EXCEPT !.observations[taskId].result =
                                         clampTail(res, MAX_RESULT_CHARS)]))

markLiveTaskFailed(rs, toolCallId, taskId, message) ==
    setLiveTaskResult(
        appendLiveTaskTrace(rs, toolCallId, taskId, <<Line("[task-error]", message)>>),
        toolCallId, taskId, <<Line("Subagent task failed: ", message)>>)

\* The registry on its own: one started run of one task, and up to MaxOps
\* operations on it with texts of the lengths LineChars; fnIn is the list of
\* the operations applied.  The n-th text written is numbered n.
LineChars == {0, 1, MAX_RESULT_CHARS + 1, MAX_TRACE_CHARS - 1, MAX_TRACE_CHARS + 1}

RegistryTask ==
    [taskId |-> makeLiveTaskID(1, 0), subagentName |-> "general", description |-> "d"]

RegistryText(n, chars) == Sized(Message("x", <<"text", n, 0>>, ""), chars)

RegistryInit ==
    /\ runs = startLiveTaskRun(EmptyMap, 1, <<RegistryTask>>)
    /\ fnIn = <<>>
    /\ fnOut = <<>>

Operation(op, msg) == [op |-> op, msg |-> msg]

AppendTrace ==
    /\ Len(fnIn) < MaxOps
    /\ \E chars \in LineChars :
        LET msg == RegistryText(Len(fnIn) + 1, chars)
        IN  /\ runs' = appendLiveTaskTrace(runs, 1, RegistryTask.taskId, <<Line("x", msg)>>)
            /\ fnIn' = Append(fnIn, Operation("appendLiveTaskTrace", msg))
    /\ UNCHANGED <<fnOut, taskSessions, heap, call, used>>
    /\ UNCHANGED <<arcVars, uiVars, histVars, liveVars>>

SetResult ==
    /\ Len(fnIn) < MaxOps
    /\ \E chars \in LineChars :
        LET msg == RegistryText(Len(fnIn) + 1, chars)
        IN  /\ runs' = setLiveTaskResult(runs, 1, RegistryTask.taskId, <<Line("x", msg)>>)
            /\ fnIn' = Append(fnIn, Operation("setLiveTaskResult", msg))
    /\ UNCHANGED <<fnOut, taskSessions, heap, call, used>>
    /\ UNCHANGED <<arcVars, uiVars, histVars, liveVars>>

MarkFailed ==
    /\ Len(fnIn) < MaxOps
    /\ \E chars \in LineChars :
        LET msg == RegistryText(Len(fnIn) + 1, chars)
        IN  /\ runs' = markLiveTaskFailed(runs, 1, RegistryTask.taskId, msg)
            /\ fnIn' = Append(fnIn, Operation("markLiveTaskFailed", msg))
    /\ UNCHANGED <<fnOut, taskSessions, heap, call, used>>
    /\ UNCHANGED <<arcVars, uiVars, histVars, liveVars>>

NextRegistry == AppendTrace \/ SetResult \/ MarkFailed

\* getLiveTaskRun: <<the snapshot>>, or Null.
Null == <<>>

getLiveTaskRun(rs, toolCallId) ==
    IF toolCallId \in DOMAIN rs THEN <<rs[toolCallId]>> ELSE Null

clearLiveTaskRunKeepsEntry(rs, toolCallId) == rs

clearLiveTaskRun(rs, toolCallId) == Del(rs, toolCallId)

(*------------------------------ Session Store ----------------------------*)

\* A history item: its type, the delegation call it was made in, its size
\* (estimateHistoryItemSize of the item as it enters the history: model
\* output arrives sanitized, tool output truncated), and whether it has
\* visible text.
HistoryItem(type, toolCallId, size, text) ==
    [type |-> type, call |-> toolCallId, size |-> size, text |-> text]

estimateHistoryItemSize(item) == item.size

RECURSIVE sizeOf(_)
sizeOf(entries) ==
    IF entries = <<>> THEN 0
    ELSE estimateHistoryItemSize(entries[1]) + sizeOf(Tail(entries))

RemoveAt(seq, k) == SubSeq(seq, 1, k - 1) \o SubSeq(seq, k + 1, Len(seq))

\* The eviction loop of compactSubagentHistory.
RECURSIVE EvictOldest(_, _)
EvictOldest(trimmed, keepFirstUser) ==
    LET minLength == IF keepFirstUser THEN 2 ELSE 1
        removeIndex == IF keepFirstUser THEN 2 ELSE 1
    IN  IF /\ (\/ Len(trimmed) > MAX_SUBAGENT_HISTORY_ITEMS
               \/ sizeOf(trimmed) > MAX_SUBAGENT_HISTORY_CHARS)
           /\ Len(trimmed) >= minLength
        THEN EvictOldest(RemoveAt(trimmed, removeIndex), keepFirstUser)
        ELSE trimmed

\* The size of an item after sanitizeSubagentHistoryItem (the text of an
\* assistant item is cut by sanitizeLiveText) and truncateSubagentToolContent
\* (the content of a tool output); both keep the head and add a marker.
TrimmedSize(item) ==
    IF item.type = "assistant" /\ item.size > MAX_SUBAGENT_ASSISTANT_CONTENT_CHARS
    THEN MAX_SUBAGENT_ASSISTANT_CONTENT_CHARS + LiveMarkerChars
    ELSE IF item.type = "tool-output" /\ item.size > MAX_SUBAGENT_TOOL_CONTENT_CHARS
    THEN MAX_SUBAGENT_TOOL_CONTENT_CHARS + ToolMarkerChars
    ELSE item.size

TrimItems(history) ==
    [k \in 1..Len(history) |-> [history[k] EXCEPT !.size = TrimmedSize(history[k])]]

\* A compaction that does not pin the first user message.
compactSubagentHistoryUnpinned(history) == EvictOldest(TrimItems(history), FALSE)

compactSubagentHistory(history) ==
    EvictOldest(TrimItems(history), history # <<>> /\ history[1].type = "user")

\* The histories compaction is applied to: a first item that is a user
\* message or not, of any size up to one over the ceiling, followed by up to
\* HistoryOver items more than the ceiling allows, all of one type and of
\* size 1 but for at most one large item.  Items are numbered by position.
LargeSizes == {MAX_SUBAGENT_HISTORY_CHARS \div 2, MAX_SUBAGENT_HISTORY_CHARS,
               MAX_SUBAGENT_HISTORY_CHARS + 1}

CompactHistories ==
    {<<>>} \cup
    {[k \in 1..(n + 1) |->
        IF k = 1 THEN HistoryItem(first, 1, firstSize, TRUE)
        ELSE HistoryItem(rest, k, IF k = large THEN largeSize ELSE 1, TRUE)] :
        first \in {"user", "assistant"}, firstSize \in {1} \cup LargeSizes,
        rest \in {"user", "tool"},
        n \in {0, 1, MAX_SUBAGENT_HISTORY_ITEMS - 2}
               \cup ((MAX_SUBAGENT_HISTORY_ITEMS - 1)
                        ..(MAX_SUBAGENT_HISTORY_ITEMS - 1 + HistoryOver)),
        large \in {0, 2, 3}, largeSize \in LargeSizes}

CompactInit == fnIn \in CompactHistories /\ fnOut = <<>>

\* compactSubagentHistory is applied to the history.
Compact ==
    /\ fnOut = <<>>
    /\ fnOut' = <<compactSubagentHistory(fnIn)>>
    /\ UNCHANGED fnIn
    /\ UNCHANGED <<arcVars, taskVars, uiVars, histVars, liveVars>>

SessionAtForgets(store, key) == 0

\* taskSessions.get(key): the stored session object, or 0.
SessionAt(store, key) ==
    IF \E k \in 1..Len(store) : store[k].key = key
    THEN store[CHOOSE k \in 1..Len(store) : store[k].key = key].obj
    ELSE 0

RECURSIVE DropOldest(_)
DropOldest(store) ==
    IF Len(store) > MAX_TASK_SESSIONS THEN DropOldest(Tail(store)) ELSE store

\* A store that keeps a session that is stored again at its old place.
storeTaskSessionInPlace(store, taskId, obj) ==
    IF \E k \in 1..Len(store) : store[k].key = taskId
    THEN [k \in 1..Len(store) |->
             IF store[k].key = taskId THEN [key |-> taskId, obj |-> obj] ELSE store[k]]
    ELSE DropOldest(Append(store, [key |-> taskId, obj |-> obj]))

storeTaskSession(store, taskId, obj) ==
    DropOldest(Append(SelectSeq(store, LAMBDA e : e.key # taskId),
                      [key |-> taskId, obj |-> obj]))

makeSessionKey(taskId) == taskId

(*----------------------- Subagent Delegation Service ---------------------*)

\* The subagents offered by the tool (subagentChoices).
Candidates == {"general", "explore"}

ExplicitIds == {<<"id", 1, 0>>}

\* Prompts: empty after trimming, or not.
Prompts == {"", "p"}

PromptLength(prompt) == IF prompt = "" THEN 0 ELSE 1

Invocation(description, prompt, subagent_type, task_id) ==
    [description |-> description, prompt |-> prompt,
     subagent_type |-> subagent_type, task_id |-> task_id]

\* An error value: its class, its name and its message.
Error(class, name, message) == [class |-> class, name |-> name, message |-> message]

NoError == Error("none", "", NoMessage)

USER_ABORTED_ERROR_MESSAGE == Message("Aborted by user", NoId, "")

ToolError(message) == Error("ToolError", "Error", message)

AbortError == Error("AbortError", "AbortError", Message("The operation was aborted", NoId, ""))

\* message.toLowerCase().includes("aborted"), on the texts of the model.
IncludesAborted(message) ==
    message.text \in {"Aborted by user", "The operation was aborted", "socket aborted"}

isAbortLikeErrorByClassOnly(error) == error.class = "AbortError"

isAbortLikeError(error) ==
    \/ error.class = "AbortError"
    \/ /\ error.class # "none"
       /\ (error.name = "AbortError" \/ IncludesAborted(error.message))

Observation(taskId, subagentName, description, trace, res) ==
    [taskId |-> taskId, subagentName |-> subagentName, description |-> description,
     trace |-> trace, result |-> res]

NoObservation == Observation(NoId, "", "", <<>>, <<>>)

\* trimBlock, sanitizeLiveText: the head of the text and a marker.
trimBlock(input, maxChars) ==
    IF TextLength(input) <= maxChars THEN input
    ELSE TakeChars(input, maxChars) \o <<TruncationMarker>>

TraceTag(item) ==
    CASE item.type = "user"        -> "[user]"
      [] item.type = "assistant"   -> "[assistant]"
      [] item.type = "tool"        -> "[tool-request]"
      [] item.type = "tool-output" -> "[tool-output]"
      [] item.type = "tool-failed" -> "[tool-error]"
      [] OTHER                     -> "[other]"

summarizeTaskTrace(history) ==
    trimBlock([k \in 1..Len(history) |-> Line(TraceTag(history[k]), NoMessage)],
              TRACE_SUMMARY_CHARS)

\* latestAssistantText: the text of the last assistant item that has one;
\* <<>> when there is none.
latestAssistantText(history) ==
    IF \E k \in 1..Len(history) : history[k].type = "assistant" /\ history[k].text
    THEN <<Line("assistant text", NoMessage)>>
    ELSE <<>>

taskObservationWithoutError(invocation, error, taskId) ==
    Observation(taskId, invocation.subagent_type, invocation.description, <<>>, <<>>)

taskObservationFromFailure(invocation, error, taskId) ==
    Observation(taskId, invocation.subagent_type, invocation.description,
                <<Line("[task-error]", error.message)>>,
                <<Line("Subagent task failed: ", error.message)>>)

\* The observation text of a call: its format and its blocks, each with the
\* head of its trace and result.
NoContent == [format |-> "none", blocks |-> <<>>]

ObservedBlock(o, traceChars, resultChars) ==
    [o EXCEPT !.trace = trimBlock(o.trace, traceChars),
              !.result = trimBlock(o.result, resultChars)]

buildObservedTaskOutput(o) ==
    [format |-> "single",
     blocks |-> <<ObservedBlock(o, SINGLE_TRACE_CHARS, SINGLE_RESULT_CHARS)>>]

buildParallelObservedTaskOutput(observations) ==
    [format |-> "parallel",
     count |-> Len(observations),
     blocks |-> [k \in 1..Len(observations) |->
                    ObservedBlock(observations[k], PARALLEL_TRACE_CHARS,
                                  PARALLEL_RESULT_CHARS)]]

\* buildParallelAwarenessPrefix: empty unless the batch has several tasks.
PrefixLength(total) == IF total <= 1 THEN 0 ELSE 1

\* validateTaskIdUniqueness: no explicit task_id occurs twice.
validateTaskIdUniquenessCountsMissing(inputs) ==
    \A j, k \in 1..Len(inputs) : j # k => inputs[j].task_id # inputs[k].task_id

validateTaskIdUniqueness(inputs) ==
    \A j, k \in 1..Len(inputs) :
        (j # k /\ inputs[j].task_id # NoId) => inputs[j].task_id # inputs[k].task_id

\* The invocations a call plans: its parallel_tasks, or its own fields.
InvocationInputs(args) ==
    IF Len(args.parallel_tasks) > 0 THEN args.parallel_tasks ELSE <<args.single>>

\* What validate throws, in the order of its tests; NoError when it passes.
ValidateThrows(args) ==
    IF args.single.subagent_type \notin Candidates
    THEN ToolError(Message("Unknown subagent", NoId, args.single.subagent_type))
    ELSE IF ~validateTaskIdUniqueness(InvocationInputs(args))
    THEN ToolError(Message("Duplicate task_id in parallel_tasks", NoId, ""))
    ELSE IF \E k \in 1..Len(args.parallel_tasks) :
                args.parallel_tasks[k].subagent_type \notin Candidates
    THEN LET k == CHOOSE j \in 1..Len(args.parallel_tasks) :
                    /\ args.parallel_tasks[j].subagent_type \notin Candidates
                    /\ \A i \in 1..(j - 1) :
                          args.parallel_tasks[i].subagent_type \in Candidates
         IN ToolError(Message("Unknown subagent", NoId, args.parallel_tasks[k].subagent_type))
    ELSE NoError

\* validate: TRUE when the call passes.
validate(args) == ValidateThrows(args) = NoError

\* The calls validate is applied to: any subagent name, known or not, and
\* up to MaxParallel parallel_tasks with or without a task_id.
ValidateIds == {<<"id", 1, 0>>, <<"id", 2, 0>>}

ValidateInvocations ==
    {Invocation("d", "p", s, t) : s \in Candidates \cup {"ghost"},
                                  t \in {NoId} \cup ValidateIds}

ValidateInputs ==
    {[single |-> i, parallel_tasks |-> b] :
        i \in ValidateInvocations,
        b \in UNION {[1..m -> ValidateInvocations] : m \in 0..MaxParallel}}

ValidateInit == fnIn \in ValidateInputs /\ fnOut = <<>>

\* validate is applied to the call.
Validate ==
    /\ fnOut = <<>>
    /\ fnOut' = <<ValidateThrows(fnIn)>>
    /\ UNCHANGED fnIn
    /\ UNCHANGED <<arcVars, taskVars, uiVars, histVars, liveVars>>

\* A stored or new TaskSession object.  heap holds the session objects; a
\* session is known by its position in heap, as an object is by reference.
Session(id, subagentName, history) ==
    [id |-> id, subagentName |-> subagentName, history |-> history]

SessionMismatchNever(session, subagentName) == FALSE

\* The subagent pinning test of executeTaskInvocation.
SessionMismatch(session, subagentName) == session.subagentName # subagentName

PinningMessage(taskId, subagentName) ==
    Message("Task belongs to subagent. Resume it with that same subagent.",
            taskId, subagentName)

\* The arguments of a call of the tool.  A task without task_id starts a
\* fresh session whatever its subagent: one subagent stands for all there.
Invocations ==
    {Invocation("d", p, "general", NoId) : p \in Prompts}
    \cup {Invocation("d", p, s, t) : p \in Prompts, s \in Candidates, t \in ExplicitIds}

DefaultInvocation == Invocation("d", "p", "general", NoId)

\* The calls that plan at most n tasks.  The tasks of a batch have a prompt.
TaskArguments(n) ==
    {[single |-> i, parallel_tasks |-> <<>>] : i \in Invocations}
    \cup {[single |-> DefaultInvocation, parallel_tasks |-> b] :
            b \in UNION {[1..m -> {i \in Invocations : i.prompt # ""}] : m \in 1..n}}

NoArguments == [single |-> Invocation("", "", "", NoId), parallel_tasks |-> <<>>]

\* One executeTaskInvocation of a call: where it is suspended ("key": before
\* its next arc, "tool": in a tool execution) or how it settled.
TaskRun(pc, entry, session, arcs, value, reason) ==
    [pc |-> pc, entry |-> entry, session |-> session, arcs |-> arcs,
     value |-> value, reason |-> reason]

Rejected(task, error) == [task EXCEPT !.pc = "rejected", !.reason = error]

Fulfilled(task, observation) == [task EXCEPT !.pc = "fulfilled", !.value = observation]

\* One call of run(): "idle" before the first, "running", and "returned"
\* (with its content) or "raised" (with its error) after it.  Calls of the
\* tool follow each other: the agent runs one tool call at a time.
\* meta.toolCallId: the calls are numbered, so their ids are distinct.
\* settled lists the tasks of the call in the order their promises settled.
IdleCall ==
    [toolCallId |-> 0, pc |-> "idle", args |-> NoArguments, aborted |-> FALSE,
     tasks |-> <<>>, settled |-> <<>>, content |-> NoContent, error |-> NoError]

Planned(liveRunId, inputs) ==
    [k \in 1..Len(inputs) |->
        [invocation |-> inputs[k],
         taskId |-> IF inputs[k].task_id # NoId THEN inputs[k].task_id
                    ELSE makeLiveTaskID(liveRunId, k - 1)]]

PlannedSeeds(planned) ==
    [k \in 1..Len(planned) |->
        [taskId |-> planned[k].taskId,
         subagentName |-> planned[k].invocation.subagent_type,
         description |-> planned[k].invocation.description]]

\* executeTaskInvocation up to its first suspension, on the registry, the
\* session store, the heap and the tasks of the call gathered in st.
\* total is the size of the batch, 0 without a peer context.
executeTaskInvocation(st, toolCallId, entry, total) ==
    LET invocation == entry.invocation
        subagentName == invocation.subagent_type
        taskId == IF invocation.task_id # NoId THEN invocation.task_id ELSE entry.taskId
        sessionKey == makeSessionKey(taskId)
        found == SessionAt(st.store, sessionKey)
        heap1 == IF found = 0
                 THEN Append(st.heap, Session(taskId, subagentName, <<>>))
                 ELSE st.heap
        session == IF found = 0 THEN Len(heap1) ELSE found
        promptLength == PrefixLength(total) + PromptLength(invocation.prompt)
        task == TaskRun("key", entry, 0, 0, NoObservation, NoError)
    IN  IF subagentName \notin Candidates
        THEN [st EXCEPT !.tasks = Append(@,
                 Rejected(task, ToolError(Message("Unknown subagent", NoId, subagentName))))]
        ELSE IF SessionMismatch(heap1[session], subagentName)
        THEN [st EXCEPT !.tasks = Append(@,
                 Rejected(task, ToolError(PinningMessage(taskId, heap1[session].subagentName))))]
        ELSE [runs  |-> IF promptLength > 0
                        THEN appendLiveTaskTrace(st.runs, toolCallId, taskId,
                                                 <<Line("[user]", NoMessage)>>)
                        ELSE st.runs,
              store |-> storeTaskSession(st.store, sessionKey, session),
              heap  |-> IF promptLength > 0
                        THEN [heap1 EXCEPT ![session].history =
                                 Append(@, HistoryItem("user", toolCallId, promptLength, TRUE))]
                        ELSE heap1,
              tasks |-> Append(st.tasks, [task EXCEPT !.session = session])]

\* planned.map(entry => executeTaskInvocation(...)): the tasks start in order.
RECURSIVE Launch(_, _, _, _, _)
Launch(st, toolCallId, planned, total, k) ==
    IF k > Len(planned) THEN st
    ELSE Launch(executeTaskInvocation(st, toolCallId, planned[k], total),
                toolCallId, planned, total, k + 1)

\* The catch of run(): what the call raises for an error thrown inside.
RunCatch(error, isAborted) ==
    IF isAborted \/ isAbortLikeError(error) THEN ToolError(USER_ABORTED_ERROR_MESSAGE)
    ELSE error

Settled(task) == task.pc \in {"fulfilled", "rejected"}

\* The live result of a failed task: failed.result without its prefix.
RECURSIVE MarkFailures(_, _, _, _)
MarkFailures(rs, toolCallId, tasks, k) ==
    IF k > Len(tasks) THEN rs
    ELSE MarkFailures(
            IF tasks[k].pc = "rejected"
            THEN markLiveTaskFailed(rs, toolCallId, tasks[k].entry.taskId,
                                    tasks[k].reason.message)
            ELSE rs,
            toolCallId, tasks, k + 1)

SettledObservation(task) ==
    IF task.pc = "fulfilled" THEN task.value
    ELSE taskObservationFromFailure(task.entry.invocation, task.reason, task.entry.taskId)

SettledObservationsReversed(tasks) ==
    [k \in 1..Len(tasks) |-> SettledObservation(tasks[Len(tasks) + 1 - k])]

\* settled.map(...): the observation of every task, in the order of planned.
SettledObservations(tasks) ==
    [k \in 1..Len(tasks) |-> SettledObservation(tasks[k])]

\* The test of the .catch of the single invocation: rethrow the error.
SingleCatchRethrows(error, isAborted) == isAborted \/ isAbortLikeError(error)

\* The order the tasks settled in, with the tasks that settled since: the
\* tasks that fail when they are started do so in the order of planned.
RECURSIVE NowSettled(_, _, _)
NowSettled(tasks, settled, k) ==
    IF k > Len(tasks) THEN settled
    ELSE NowSettled(tasks,
                    IF Settled(tasks[k]) /\ \A j \in 1..Len(settled) : settled[j] # k
                    THEN Append(settled, k) ELSE settled,
                    k + 1)

\* The end of run() once every task of the call has settled: the call
\* returns its content or raises, and its registry entry is cleared.
\* Before that, the call and the registry stay as they are.
Conclude(c, rs, toolCallId) ==
    LET cl == [c EXCEPT !.settled = NowSettled(c.tasks, c.settled, 1)]
    IN
    IF \E k \in 1..Len(cl.tasks) : ~Settled(cl.tasks[k])
    THEN [call |-> cl, runs |-> rs]
    ELSE IF Len(cl.args.parallel_tasks) > 0
    THEN [call |-> [cl EXCEPT !.pc = "returned",
                       !.content = buildParallelObservedTaskOutput(
                                       SettledObservations(cl.tasks))],
          runs |-> clearLiveTaskRun(MarkFailures(rs, toolCallId, cl.tasks, 1), toolCallId)]
    ELSE LET task == cl.tasks[1]
         IN  IF task.pc = "rejected" /\ SingleCatchRethrows(task.reason, cl.aborted)
             THEN [call |-> [cl EXCEPT !.pc = "raised",
                                !.error = RunCatch(task.reason, cl.aborted)],
                   runs |-> clearLiveTaskRun(rs, toolCallId)]
             ELSE [call |-> [cl EXCEPT !.pc = "returned",
                                !.content = buildObservedTaskOutput(SettledObservation(task))],
                   runs |-> clearLiveTaskRun(MarkFailures(rs, toolCallId, cl.tasks, 1),
                                             toolCallId)]

\* run() up to its first suspension: the registry entry, the abort test,
\* and the start of every planned task, for a call drawn from arguments.
RunStartFrom(arguments) ==
    /\ call.pc # "running"
    /\ used.tasks < MaxTasks
    /\ \E args \in arguments, preAborted \in BOOLEAN :
        /\ validate(args)
        /\ LET liveRunId == call.toolCallId + 1
               planned == Planned(liveRunId, InvocationInputs(args))
               started == startLiveTaskRun(runs, liveRunId, PlannedSeeds(planned))
               total == IF Len(args.parallel_tasks) > 0 THEN Len(planned) ELSE 0
               st == Launch([runs |-> started, store |-> taskSessions, heap |-> heap,
                             tasks |-> <<>>], liveRunId, planned, total, 1)
               cl == [IdleCall EXCEPT !.toolCallId = liveRunId, !.pc = "running",
                                      !.args = args, !.aborted = preAborted]
           IN  /\ used' = [used EXCEPT !.tasks = @ + Len(planned)]
               /\ IF preAborted
                  THEN /\ call' = [cl EXCEPT !.pc = "raised",
                                      !.error = RunCatch(ToolError(USER_ABORTED_ERROR_MESSAGE),
                                                         TRUE)]
                       /\ runs' = clearLiveTaskRun(started, liveRunId)
                       /\ UNCHANGED <<taskSessions, heap>>
                  ELSE LET end == Conclude([cl EXCEPT !.tasks = st.tasks], st.runs, liveRunId)
                       IN  /\ call' = end.call
                           /\ runs' = end.runs
                           /\ taskSessions' = st.store
                           /\ heap' = st.heap
    /\ UNCHANGED <<arcVars, fnVars, uiVars, histVars, liveVars>>

RunStart == RunStartFrom(TaskArguments(MaxTasks - used.tasks))

\* task_id is any string (t.optional(t.str)): it may spell an id that
\* makeLiveTaskID derives.  The invocations of such batches, and the batches
\* of at most n tasks made of them.
BatchIds == {<<"id", 1, 0>>, makeLiveTaskID(1, 0)}

BatchArguments(n) ==
    {[single |-> DefaultInvocation, parallel_tasks |-> b] :
        b \in UNION {[1..m -> {Invocation("d", "p", s, t) :
                                  s \in Candidates, t \in {NoId} \cup BatchIds}] :
                        m \in 1..n}}

\* run() of a batch whose task ids are any strings.
BatchStart == RunStartFrom(BatchArguments(MaxTasks - used.tasks))

\* The abort signal of a running call fires.
TaskAbortFires ==
    /\ call.pc = "running"
    /\ ~call.aborted
    /\ call' = [call EXCEPT !.aborted = TRUE]
    /\ UNCHANGED <<runs, taskSessions, heap, used>>
    /\ UNCHANGED <<arcVars, fnVars, uiVars, histVars, liveVars>>

\* What the arc of a subagent finishes with, and the history items made of
\* its output.  An abort finish needs the signal.
SubagentFinishes(isAborted) ==
    {"needs-response", "request-error", "request-tool"}
    \cup (IF isAborted THEN {"abort"} ELSE {})

Generated(reason, toolCallId) ==
    CASE reason = "needs-response" -> <<HistoryItem("assistant", toolCallId, 1, TRUE)>>
      [] reason = "request-tool"   -> <<HistoryItem("assistant", toolCallId, 0, FALSE),
                                        HistoryItem("tool", toolCallId, 1, FALSE)>>
      [] OTHER                     -> <<>>

\* What assertKeyForModel or the arc may throw.
SubagentThrows(isAborted) ==
    {Error("Error", "Error", Message("boom", NoId, "")),
     Error("Error", "Error", Message("socket aborted", NoId, ""))}
    \cup (IF isAborted THEN {AbortError} ELSE {})

RECURSIVE MirrorGenerated(_, _, _, _)
MirrorGenerated(rs, toolCallId, taskId, generated) ==
    IF generated = <<>> THEN rs
    ELSE LET item == generated[1]
             rs1 == IF item.type = "assistant" /\ item.text
                    THEN appendLiveTaskTrace(rs, toolCallId, taskId,
                                             <<Line("[assistant]", NoMessage)>>)
                    ELSE IF item.type = "tool"
                    THEN appendLiveTaskTrace(rs, toolCallId, taskId,
                                             <<Line("[tool-request]", NoMessage)>>)
                    ELSE rs
         IN MirrorGenerated(rs1, toolCallId, taskId, Tail(generated))

\* The end of executeTaskInvocation after runSubagentUntilPause returned.
TaskFulfils(task, rs, toolCallId, history, res) ==
    [task |-> Fulfilled(task, Observation(task.entry.taskId,
                                          task.entry.invocation.subagent_type,
                                          task.entry.invocation.description,
                                          summarizeTaskTrace(history), res)),
     runs |-> setLiveTaskResult(rs, toolCallId, task.entry.taskId, res)]

\* The arc of a suspended task returns or throws: one pass of the loop of
\* runSubagentUntilPause from the arc to the next suspension.
TaskArcReturns(k) ==
    /\ call.pc = "running"
    /\ k \in 1..Len(call.tasks)
    /\ call.tasks[k].pc = "key"
    /\ used.arcs < MaxArcs
    /\ LET toolCallId == call.toolCallId
           task == [call.tasks[k] EXCEPT !.arcs = @ + 1]
           taskId == task.entry.taskId
       IN  \/ \E error \in SubagentThrows(call.aborted) :
                LET end == Conclude([call EXCEPT !.tasks[k] = Rejected(task, error)],
                                    runs, toolCallId)
                IN  /\ call' = end.call
                    /\ runs' = end.runs
                    /\ used' = [used EXCEPT !.arcs = @ + 1]
                    /\ UNCHANGED <<taskSessions, heap>>
           \/ \E reason \in SubagentFinishes(call.aborted) :
                LET generated == Generated(reason, toolCallId)
                    history == compactSubagentHistory(heap[task.session].history \o generated)
                    rs1 == MirrorGenerated(runs, toolCallId, taskId, generated)
                    text == latestAssistantText(history)
                    failure == <<Line("Subagent request failed: ", NoMessage)>>
                    done ==
                        IF reason = "request-error"
                        THEN TaskFulfils(task,
                                 appendLiveTaskTrace(rs1, toolCallId, taskId,
                                     <<Line("[task-error]", NoMessage)>> \o failure),
                                 toolCallId, history, failure)
                        ELSE TaskFulfils(task, rs1, toolCallId, history,
                                 IF Len(text) > 0 THEN text
                                 ELSE <<Line("Subagent finished without additional output.",
                                             NoMessage)>>)
                    end == IF reason = "request-tool"
                           THEN [call |-> [call EXCEPT !.tasks[k] =
                                              [task EXCEPT !.pc = "tool"]],
                                 runs |-> rs1]
                           ELSE Conclude([call EXCEPT !.tasks[k] = done.task],
                                         done.runs, toolCallId)
                IN  /\ call' = end.call
                    /\ runs' = end.runs
                    /\ heap' = [heap EXCEPT ![task.session].history = history]
                    /\ used' = [used EXCEPT !.arcs = @ + 1]
                    /\ UNCHANGED taskSessions
    /\ UNCHANGED <<arcVars, fnVars, uiVars, histVars, liveVars>>

AfterToolIgnoresAbort(task, isAborted) == [task EXCEPT !.pc = "key"]

\* The top of the loop of runSubagentUntilPause after a tool result: it
\* throws when the signal is set, and goes on to the next arc otherwise.
AfterTool(task, isAborted) ==
    IF isAborted THEN Rejected(task, ToolError(USER_ABORTED_ERROR_MESSAGE))
    ELSE [task EXCEPT !.pc = "key"]

\* executeSubagentTool returns its item (a tool failure is an item too); the
\* item is appended, and the loop of runSubagentUntilPause tests the signal.
TaskToolReturns(k) ==
    /\ call.pc = "running"
    /\ k \in 1..Len(call.tasks)
    /\ call.tasks[k].pc = "tool"
    /\ \E type \in {"tool-output", "tool-failed"} :
        LET toolCallId == call.toolCallId
            task == call.tasks[k]
            rs1 == appendLiveTaskTrace(runs, toolCallId, task.entry.taskId,
                       <<Line(TraceTag(HistoryItem(type, toolCallId, 1, FALSE)), NoMessage)>>)
            history == compactSubagentHistory(
                           Append(heap[task.session].history,
                                  HistoryItem(type, toolCallId, 1, FALSE)))
            next == AfterTool(task, call.aborted)
            end == Conclude([call EXCEPT !.tasks[k] = next], rs1, toolCallId)
        IN  /\ call' = end.call
            /\ runs' = end.runs
            /\ heap' = [heap EXCEPT ![task.session].history = history]
            /\ UNCHANGED <<taskSessions, used>>
    /\ UNCHANGED <<arcVars, fnVars, uiVars, histVars, liveVars>>

TaskInit ==
    /\ runs = EmptyMap
    /\ taskSessions = <<>>
    /\ heap = <<>>
    /\ call = IdleCall
    /\ used = [tasks |-> 0, arcs |-> 0]

\* The session store when it is full: MAX_TASK_SESSIONS earlier calls each
\* delegated one task with a prompt, the first under an explicit task_id,
\* and the subagent of each answered without a tool call.
EarlierTaskId(c) == IF c = 1 THEN <<"id", 1, 0>> ELSE makeLiveTaskID(c, 0)

EarlierSession(c) ==
    Session(EarlierTaskId(c), "general",
            <<HistoryItem("user", c, PromptLength("p"), TRUE)>>
            \o Generated("needs-response", c))

FullStoreInit ==
    /\ runs = EmptyMap
    /\ taskSessions = [c \in 1..MAX_TASK_SESSIONS |->
                          [key |-> makeSessionKey(EarlierTaskId(c)), obj |-> c]]
    /\ heap = [c \in 1..MAX_TASK_SESSIONS |-> EarlierSession(c)]
    /\ call = [IdleCall EXCEPT !.toolCallId = MAX_TASK_SESSIONS]
    /\ used = [tasks |-> 0, arcs |-> 0]

\* No arc of the main agent runs while the task tool does.
ArcIdle ==
    /\ aborted = FALSE
    /\ budget0 = 0
    /\ stack = <<>>
    /\ result = NoFinish
    /\ events = <<>>
    /\ retryTools = 0
    /\ appended = <<>>
    /\ invocations = 0
    /\ onlyMalformed = TRUE

NextTask ==
    \/ RunStart
    \/ TaskAbortFires
    \/ \E k \in 1..MaxTasks : TaskArcReturns(k)
    \/ \E k \in 1..MaxTasks : TaskToolReturns(k)

(*--------------------------- Orchestration Store -------------------------*)

\* The store of the terminal interface.  ui is a record of its fields (the
\* mode with what it carries, the focus, the two orderings of task
\* observations) and of the asynchronous calls of input, retryFrom and
\* runTool that are outstanding.  The history, the vim mode of the composer
\* and the text of the observations are not modelled: the observation maps
\* have the ids of their orderings as keys.  A step is a store action called
\* by the interface, or the synchronous stretch of an outstanding call
\* between two of its awaits.  op tells what the last step was when it was a
\* focus action ("focusNextTask", "focusPrevTask"), the start of a tool run
\* ("runTool"), the return of a Finish (its reason), an abort test that
\* found the signal ("_maybeHandleAbort") or an error leaving runTool
\* ("thrown"), and is "" otherwise.

Main == <<"main", 0, 0>>

\* The AbortController that call r makes in runTool ("tool") or in
\* _runAgent ("arc").
Controller(r, pc) == <<r, pc>>

NoController == Controller(0, "")

\* A tool call of the model: its id, and the ids of the tasks it delegates
\* (none when the tool is not the task tool).
ToolCallRequest(toolCallId, tasks) == [toolCallId |-> toolCallId, tasks |-> tasks]

NoRequest == ToolCallRequest(0, <<>>)

\* provisionalTaskObservationsFromRequest, and the order startLiveTaskRun
\* publishes for the same call: task_id ?? makeLiveTaskID(toolCallId, index).
\* A task call has two tasks here, the second with a task_id.
TaskIdLists(toolCallId) ==
    {<<>>} \cup {<<makeLiveTaskID(toolCallId, 0), t>> : t \in ExplicitIds}

ToolRequests(toolCallId) ==
    {ToolCallRequest(toolCallId, tasks) : tasks \in TaskIdLists(toolCallId)}

\* An outstanding call: where it is ("loading" before trajectoryArc, "arc",
\* "tool", "done"), the number of its AbortController and whether that was
\* aborted, and the tool call it runs.
Activity(pc, controller, isAborted, toolReq) ==
    [pc |-> pc, controller |-> controller, aborted |-> isAborted, toolReq |-> toolReq]

\* The history item a step appends for a tool call, if it appends one.
NoItem == [type |-> "none", toolCallId |-> 0]

ToolItemOnlyForOutput(outcome, toolCallId) ==
    IF outcome = "tool-output" THEN [type |-> outcome, toolCallId |-> toolCallId]
    ELSE NoItem

\* The item runTool appends when the tool has settled: the tool-output
\* item, or the item tryTransformToolError makes of the error; none when
\* tryTransformToolError throws the error again.
ToolItem(outcome, toolCallId) ==
    IF outcome = "thrown" THEN NoItem
    ELSE [type |-> outcome, toolCallId |-> toolCallId]

InitialStore ==
    [mode |-> "input",
     appended |-> NoItem,
     toolReq |-> NoRequest,
     abortController |-> NoController,
     focus |-> Main,
     taskObservationOrder |-> <<>>,
     liveTaskObservationOrder |-> <<>>,
     activities |-> <<>>,
     op |-> ""]

\* The modes whose data holds an AbortController.
AbortableModes == {"responding", "compacting", "diff-apply", "fix-json", "tool-waiting"}

ErrorModes == {"payment-error", "rate-limit-error", "request-error", "compaction-error"}

\* set({modeData: ...}) with what the mode carries.
SetMode(u, mode, toolReq, controller) ==
    [u EXCEPT !.mode = mode, !.toolReq = toolReq, !.abortController = controller]

SetInput(u) == SetMode(u, "input", NoRequest, NoController)

Done == Activity("done", NoController, FALSE, NoRequest)

\* The step op ends in state u.
Step(u, op) ==
    [u EXCEPT !.op = op, !.appended = NoItem]

activeTaskOrderPrefersFinalized(u) ==
    IF Len(u.taskObservationOrder) > 0 THEN u.taskObservationOrder
    ELSE u.liveTaskObservationOrder

activeTaskOrder(u) ==
    IF Len(u.liveTaskObservationOrder) > 0 THEN u.liveTaskObservationOrder
    ELSE u.taskObservationOrder

\* Array.indexOf, counted from 1; 0 when the id is absent.
IndexOf(order, taskId) ==
    IF \E k \in 1..Len(order) : order[k] = taskId
    THEN CHOOSE k \in 1..Len(order) :
            order[k] = taskId /\ \A j \in 1..(k - 1) : order[j] # taskId
    ELSE 0

\* A focusNextTask that goes from the last task to the first.
focusNextTaskSkipsMain(u) ==
    LET taskObservationOrder == activeTaskOrder(u)
        currentIndex == IndexOf(taskObservationOrder, u.focus)
    IN  IF Len(taskObservationOrder) = 0 THEN u
        ELSE IF u.focus = Main \/ currentIndex = Len(taskObservationOrder)
        THEN [u EXCEPT !.focus = taskObservationOrder[1]]
        ELSE IF currentIndex = 0
        THEN [u EXCEPT !.focus = taskObservationOrder[Len(taskObservationOrder)]]
        ELSE [u EXCEPT !.focus = taskObservationOrder[currentIndex + 1]]

focusNextTask(u) ==
    LET taskObservationOrder == activeTaskOrder(u)
        currentIndex == IndexOf(taskObservationOrder, u.focus)
    IN  IF Len(taskObservationOrder) = 0 THEN u
        ELSE IF u.focus = Main THEN [u EXCEPT !.focus = taskObservationOrder[1]]
        ELSE IF currentIndex = 0
        THEN [u EXCEPT !.focus = taskObservationOrder[Len(taskObservationOrder)]]
        ELSE IF currentIndex = Len(taskObservationOrder) THEN [u EXCEPT !.focus = Main]
        ELSE [u EXCEPT !.focus = taskObservationOrder[currentIndex + 1]]

focusPrevTask(u) ==
    LET taskObservationOrder == activeTaskOrder(u)
        currentIndex == IndexOf(taskObservationOrder, u.focus)
    IN  IF Len(taskObservationOrder) = 0 THEN u
        ELSE IF u.focus = Main
        THEN [u EXCEPT !.focus = taskObservationOrder[Len(taskObservationOrder)]]
        ELSE IF currentIndex = 0
        THEN [u EXCEPT !.focus = taskObservationOrder[Len(taskObservationOrder)]]
        ELSE IF currentIndex = 1 THEN [u EXCEPT !.focus = Main]
        ELSE [u EXCEPT !.focus = taskObservationOrder[currentIndex - 1]]

\* abortResponse: aborts the controller held by the mode, if it holds one.
abortResponse(u) ==
    IF u.mode \in AbortableModes
    THEN [u EXCEPT !.activities =
             [r \in 1..Len(@) |->
                 IF @[r].controller = u.abortController /\ @[r].pc # "done"
                 THEN [@[r] EXCEPT !.aborted = TRUE] ELSE @[r]]]
    ELSE u

\* An abort test that never finds the signal.
maybeHandleAbortIgnoresSignal(u, isAborted) == u

\* _maybeHandleAbort
maybeHandleAbort(u, isAborted) == IF isAborted THEN SetInput(u) ELSE u

\* _runAgent up to its first await (ensureAgents): activity r waits.
runAgent(u, r) ==
    [u EXCEPT !.activities[r] = Activity("loading", NoController, FALSE, NoRequest)]

\* input() and retryFrom(): a new call, of _runAgent.
NewAgentCall(u) ==
    runAgent([u EXCEPT !.activities = Append(@, Activity("new", NoController, FALSE,
                                                         NoRequest))],
             Len(u.activities) + 1)

\* The mode a returned Finish is shown in.
FinishModeKeepsResponding(reason) == "responding"

FinishMode(reason) ==
    CASE reason \in {"abort", "needs-response"} -> "input"
      [] reason = "request-error"               -> "request-error"
      [] OTHER                                  -> "tool-request"

\* The end of runTool for a task call whose output holds its observations.
ToolOutput(u, observed) ==
    [u EXCEPT !.taskObservationOrder =
                  @ \o SelectSeq(observed, LAMBDA t : IndexOf(u.taskObservationOrder, t) = 0),
              !.liveTaskObservationOrder = <<>>,
              !.focus = IF u.focus # Main /\ IndexOf(observed, u.focus) > 0
                        THEN u.focus ELSE Main]

\* The end of runTool without observations: another tool, or a tool error.
ToolWithoutObservations(u) ==
    [u EXCEPT !.liveTaskObservationOrder = <<>>,
              !.focus = IF u.focus # Main /\ IndexOf(u.liveTaskObservationOrder, u.focus) > 0
                        THEN Main ELSE u.focus]

Running == {r \in 1..Len(ui.activities) : ui.activities[r].pc # "done"}

\* The interface starts at most MaxCalls calls of input, retryFrom and runTool.
CanStart == Len(ui.activities) < MaxCalls

(* Actions of the user *)

\* The composer submits: input().  It is shown in input mode only.
Submit ==
    /\ ui.mode = "input"
    /\ CanStart
    /\ ui' = Step(NewAgentCall(ui), "")
    /\ UNCHANGED <<arcVars, taskVars, fnVars, histVars, liveVars>>

\* retryFrom(mode): the error screens retry the turn.
RetryFrom ==
    /\ ui.mode \in ErrorModes
    /\ CanStart
    /\ ui' = Step(NewAgentCall(ui), "")
    /\ UNCHANGED <<arcVars, taskVars, fnVars, histVars, liveVars>>

EditAndRetryFrom ==
    /\ ui.mode \in {"request-error", "compaction-error"}
    /\ ui' = Step(SetInput(ui), "")
    /\ UNCHANGED <<arcVars, taskVars, fnVars, histVars, liveVars>>

RejectTool ==
    /\ ui.mode = "tool-request"
    /\ ui' = Step(SetInput(ui), "")
    /\ UNCHANGED <<arcVars, taskVars, fnVars, histVars, liveVars>>

\* The tool request is confirmed: runTool() up to its first await.
RunTool ==
    /\ ui.mode = "tool-request"
    /\ CanStart
    /\ LET controller == Controller(Len(ui.activities) + 1, "tool")
           started == [ui EXCEPT !.activities = Append(@, Activity("tool", controller, FALSE,
                                                                   ui.toolReq)),
                                 !.liveTaskObservationOrder = ui.toolReq.tasks]
       IN  ui' = Step(SetMode(started, "tool-waiting", NoRequest, controller), "runTool")
    /\ UNCHANGED <<arcVars, taskVars, fnVars, histVars, liveVars>>

\* Esc in the bottom bar.
AbortResponse ==
    /\ ui.mode # "menu"
    /\ ui' = Step(abortResponse(ui), "")
    /\ UNCHANGED <<arcVars, taskVars, fnVars, histVars, liveVars>>

\* Ctrl+P in the bottom bar, which is shown in every mode but menu.
OpenMenu ==
    /\ ui.mode # "menu"
    /\ ui' = Step(SetMode(ui, "menu", NoRequest, NoController), "")
    /\ UNCHANGED <<arcVars, taskVars, fnVars, histVars, liveVars>>

ToggleMenu ==
    /\ ui.mode \in {"input", "menu"}
    /\ ui' = Step(IF ui.mode = "input" THEN SetMode(ui, "menu", NoRequest, NoController)
                  ELSE SetInput(ui), "")
    /\ UNCHANGED <<arcVars, taskVars, fnVars, histVars, liveVars>>

\* The menu closes.
CloseMenu ==
    /\ ui.mode = "menu"
    /\ ui' = Step(SetInput(ui), "")
    /\ UNCHANGED <<arcVars, taskVars, fnVars, histVars, liveVars>>

\* Shift+Right: resolveSubagentNavShortcut answers in every mode but menu
\* when the active ordering has tasks.
FocusNextTask ==
    /\ ui.mode # "menu"
    /\ Len(activeTaskOrder(ui)) > 0
    /\ ui' = Step(focusNextTask(ui), "focusNextTask")
    /\ UNCHANGED <<arcVars, taskVars, fnVars, histVars, liveVars>>

FocusPrevTask ==
    /\ ui.mode # "menu"
    /\ Len(activeTaskOrder(ui)) > 0
    /\ ui' = Step(focusPrevTask(ui), "focusPrevTask")
    /\ UNCHANGED <<arcVars, taskVars, fnVars, histVars, liveVars>>

\* clearHistory, when there are observations to clear.
ClearHistory ==
    /\ Len(ui.taskObservationOrder) + Len(ui.liveTaskObservationOrder) > 0
    /\ ui' = Step([abortResponse(ui) EXCEPT !.taskObservationOrder = <<>>,
                                            !.liveTaskObservationOrder = <<>>,
                                            !.focus = Main], "")
    /\ UNCHANGED <<arcVars, taskVars, fnVars, histVars, liveVars>>

(* Steps of the outstanding calls *)

\* ensureAgents and assertKeyForModel return, and trajectoryArc is called
\* with a new AbortController; or one of them throws and the call ends.
AgentLoads(r) ==
    /\ r \in Running
    /\ ui.activities[r].pc = "loading"
    /\ \E ok \in BOOLEAN :
        ui' = Step(IF ok
                   THEN [ui EXCEPT !.activities[r] =
                                       Activity("arc", Controller(r, "arc"), FALSE, NoRequest)]
                   ELSE [ui EXCEPT !.activities[r] = Done],
                   "")
    /\ UNCHANGED <<arcVars, taskVars, fnVars, histVars, liveVars>>

\* A handler of the arc sets the mode: startResponse and responseProgress,
\* startCompaction and compactionProgress, autofixingJson, autofixingDiff.
ArcEvent(r) ==
    /\ r \in Running
    /\ ui.activities[r].pc = "arc"
    /\ \E mode \in {"responding", "compacting", "fix-json", "diff-apply"} :
        ui' = Step(SetMode(ui, mode, NoRequest, ui.activities[r].controller), "")
    /\ UNCHANGED <<arcVars, taskVars, fnVars, histVars, liveVars>>

\* trajectoryArc returns a Finish.  An abort Finish needs the signal; the
\* other reasons are returned with and without it.  The tool call of call r
\* has the id r.
ArcReturns(r) ==
    /\ r \in Running
    /\ ui.activities[r].pc = "arc"
    /\ \E reason \in {"needs-response", "request-error", "request-tool"}
                     \cup (IF ui.activities[r].aborted THEN {"abort"} ELSE {}) :
       \E toolReq \in IF reason = "request-tool" THEN ToolRequests(r) ELSE {NoRequest} :
        ui' = Step([SetMode(ui, FinishMode(reason), toolReq, NoController)
                       EXCEPT !.activities[r] = Done],
                   reason)
    /\ UNCHANGED <<arcVars, taskVars, fnVars, histVars, liveVars>>

\* trajectoryArc throws.
ArcThrows(r) ==
    /\ r \in Running
    /\ ui.activities[r].pc = "arc"
    /\ \E e \in {"CompactionRequestError", "PaymentError", "RateLimitError", "Error"} :
        LET ended == [ui EXCEPT !.activities[r] = Done]
        IN  ui' = Step(IF e = "CompactionRequestError"
                       THEN SetMode(ended, "compaction-error", NoRequest, NoController)
                       ELSE IF ui.activities[r].aborted THEN maybeHandleAbort(ended, TRUE)
                       ELSE IF e = "PaymentError"
                       THEN SetMode(ended, "payment-error", NoRequest, NoController)
                       ELSE IF e = "RateLimitError"
                       THEN SetMode(ended, "rate-limit-error", NoRequest, NoController)
                       ELSE ended,
                       IF e # "CompactionRequestError" /\ ui.activities[r].aborted
                       THEN "_maybeHandleAbort" ELSE "")
    /\ UNCHANGED <<arcVars, taskVars, fnVars, histVars, liveVars>>

\* The poll of the registry while a task call runs: the snapshot has the
\* order startLiveTaskRun published for the call.
SyncLiveProgress(r) ==
    /\ r \in Running
    /\ ui.activities[r].pc = "tool"
    /\ Len(ui.activities[r].toolReq.tasks) > 0
    /\ ui.liveTaskObservationOrder # ui.activities[r].toolReq.tasks
    /\ ui' = Step([ui EXCEPT !.liveTaskObservationOrder = ui.activities[r].toolReq.tasks],
                  "")
    /\ UNCHANGED <<arcVars, taskVars, fnVars, histVars, liveVars>>

\* The tool run settles: with an output (which holds the observations of a
\* task call), with an error tryTransformToolError turns into an item, or
\* with another error, which leaves runTool.  Then the abort test, and
\* _runAgent for the next turn.
ToolSettles(r) ==
    /\ r \in Running
    /\ ui.activities[r].pc = "tool"
    /\ \E outcome \in {"tool-output", "tool-failed", "thrown"} :
        LET activity == ui.activities[r]
            after == IF outcome = "tool-output" /\ Len(activity.toolReq.tasks) > 0
                     THEN ToolOutput(ui, activity.toolReq.tasks)
                     ELSE ToolWithoutObservations(ui)
            ended == [after EXCEPT !.activities[r] = Done]
        IN  ui' = [Step(IF outcome = "thrown" THEN [ui EXCEPT !.activities[r] = Done]
                        ELSE IF activity.aborted THEN maybeHandleAbort(ended, TRUE)
                        ELSE runAgent(after, r),
                        IF outcome = "thrown" THEN "thrown"
                        ELSE IF activity.aborted THEN "_maybeHandleAbort" ELSE "")
                      EXCEPT !.appended = ToolItem(outcome, activity.toolReq.toolCallId)]
    /\ UNCHANGED <<arcVars, taskVars, fnVars, histVars, liveVars>>

NextUi ==
    \/ Submit
    \/ RetryFrom
    \/ EditAndRetryFrom
    \/ RejectTool
    \/ RunTool
    \/ AbortResponse
    \/ OpenMenu
    \/ ToggleMenu
    \/ CloseMenu
    \/ FocusNextTask
    \/ FocusPrevTask
    \/ ClearHistory
    \/ \E r \in 1..MaxCalls : AgentLoads(r)
    \/ \E r \in 1..MaxCalls : ArcEvent(r)
    \/ \E r \in 1..MaxCalls : ArcReturns(r)
    \/ \E r \in 1..MaxCalls : ArcThrows(r)
    \/ \E r \in 1..MaxCalls : SyncLiveProgress(r)
    \/ \E r \in 1..MaxCalls : ToolSettles(r)

\* A step of an outstanding call: its awaited promise settles.
Settles ==
    \E r \in 1..MaxCalls :
        AgentLoads(r) \/ ArcReturns(r) \/ ArcThrows(r) \/ ToolSettles(r)

\* While calls are outstanding, one of them takes its next step: the engine
\* and the tools return.
UiFairness == WF_vars(Settles)

(***************************************************************************)
(*              TOKEN BUFFERS OF THE TRAJECTORY ARC ENGINE                 *)
(*                                                                         *)
(* The onTokens handler of trajectoryArc: every streamed delta is appended *)
(* to the buffer of its type with appendCapped and reported with           *)
(* responseProgress.  fnIn is the stream so far; fnOut holds the buffers   *)
(* and the number of responseProgress events.  A string is a text, as in   *)
(* the registry: the n-th delta is one piece of its own.                   *)
(***************************************************************************)

MAX_TRAJECTORY_BUFFER_CONTENT_CHARS == 500000
MAX_TRAJECTORY_BUFFER_REASONING_CHARS == 200000
MAX_TRAJECTORY_BUFFER_TOOL_CHARS == 500000

\* The number of deltas of a stream.
MaxDeltas == 3

AllTokenTypes == {"content", "reasoning", "tool"}

\* An appendCapped that does not cut the addition.
appendCappedWhole(base, addition, maxChars) ==
    IF TextLength(addition) = 0 \/ maxChars <= 0 THEN base
    ELSE IF TextLength(base) >= maxChars THEN base
    ELSE base \o addition

appendCapped(base, addition, maxChars) ==
    IF TextLength(addition) = 0 \/ maxChars <= 0 THEN base
    ELSE IF TextLength(base) >= maxChars THEN base
    ELSE LET remaining == maxChars - TextLength(base)
         IN  IF TextLength(addition) <= remaining THEN base \o addition
             ELSE base \o TakeChars(addition, remaining)

bufferCap(type) ==
    IF type = "reasoning" THEN MAX_TRAJECTORY_BUFFER_REASONING_CHARS
    ELSE IF type = "tool" THEN MAX_TRAJECTORY_BUFFER_TOOL_CHARS
    ELSE MAX_TRAJECTORY_BUFFER_CONTENT_CHARS

\* The lengths of a delta: empty, short, filling a buffer up to one
\* character, and longer than a buffer.
DeltaChars ==
    {0, 1, MAX_TRAJECTORY_BUFFER_REASONING_CHARS - 1,
     MAX_TRAJECTORY_BUFFER_CONTENT_CHARS - 1, MAX_TRAJECTORY_BUFFER_CONTENT_CHARS + 1}

\* The n-th delta of the stream, of this type and length.
Delta(n, type, chars) ==
    [type |-> type,
     value |-> IF chars = 0 THEN <<>>
               ELSE <<Line("", Sized(Message("delta", <<"delta", n, 0>>, ""), chars))>>]

\* `let buffer = {}` and no event yet.
BufferInit ==
    /\ fnIn = <<>>
    /\ fnOut = <<[buffer |-> [type \in AllTokenTypes |-> <<>>], progress |-> 0]>>

\* onTokens(tokens, type)
OnTokens ==
    /\ Len(fnIn) < MaxDeltas
    /\ \E type \in AllTokenTypes, chars \in DeltaChars :
          LET delta == Delta(Len(fnIn) + 1, type, chars)
              current == fnOut[1].buffer[type]
          IN  /\ fnIn' = Append(fnIn, delta)
              /\ fnOut' = <<[buffer |-> [fnOut[1].buffer EXCEPT
                                ![type] = appendCapped(current, delta.value, bufferCap(type))],
                             progress |-> fnOut[1].progress + 1]>>
    /\ UNCHANGED <<arcVars, taskVars, uiVars, histVars, liveVars>>

(***************************************************************************)
(*                 HISTORY OF THE ORCHESTRATION STORE                      *)
(*                                                                         *)
(* The history, the recorded last user prompt and the composer text of the *)
(* store, with the actions that write them: input, _runAgent and its       *)
(* handlers, retryFrom, editAndRetryFrom and clearHistory.  A call of      *)
(* _runAgent copies the history when its agents are loaded and later       *)
(* writes the copy back with the items it produced.  Of the modes, input,  *)
(* responding, menu, request-error and compaction-error are told apart;    *)
(* the calls here request no tools.  op tells that the last step was       *)
(* retryFrom or editAndRetryFrom, and with which mode argument.            *)
(***************************************************************************)

\* A history item: sequenceId() gives the ids, in increasing order.
StoreItem(id, type, content) == [id |-> id, type |-> type, content |-> content]

\* The text the user submits as the item with this id: a different one each
\* time.
Query(id) == <<"query", id>>

\* The number of calls of _runAgent that input and retryFrom start.
MaxTurns == 2

\* lastUserPromptId: null.
NullId == 0

\* A call of _runAgent: "loading" before it copies the history, "arc" while
\* trajectoryArc runs, "done"; historyCopy; and whether the signal of its
\* AbortController is aborted.
HistoryCall(pc, historyCopy, isAborted) ==
    [pc |-> pc, historyCopy |-> historyCopy, aborted |-> isAborted]

HistoryCallDone == HistoryCall("done", <<>>, FALSE)

InitialHistory ==
    [history |-> <<>>,
     lastUserPromptId |-> NullId,
     query |-> <<"", 0>>,
     mode |-> "input",
     nextId |-> 1,
     calls |-> <<>>,
     abortController |-> 0,
     cleared |-> FALSE,
     op |-> <<"", "">>]

\* The modes the error screen passes to retryFrom and editAndRetryFrom.
RetryModes == {"request-error", "compaction-error"}

\* The handlers write interim items while sequenceId() has given at most
\* this many ids.
MaxInterimIds == 2

\* cleared tells that clearHistory was called and that the user has not
\* acted on the conversation since (input, retryFrom, editAndRetryFrom).
\* Mode data other than that of "responding" hold no controller.
HistoryStep(h, name, mode) ==
    [h EXCEPT !.abortController = IF h.mode = "responding" THEN @ ELSE 0,
              !.op = IF name \in {"retryFrom", "editAndRetryFrom"} THEN <<name, mode>>
                     ELSE <<"", "">>,
              !.cleared = IF name = "clearHistory" THEN TRUE
                          ELSE IF name \in {"input", "retryFrom", "editAndRetryFrom"}
                          THEN FALSE
                          ELSE @]

\* A new call of _runAgent.
StartCall(h) == [h EXCEPT !.calls = Append(@, HistoryCall("loading", <<>>, FALSE))]

\* history.find(item => item.id === lastUserPromptId)
RECURSIVE Find(_, _)
Find(history, id) ==
    IF history = <<>> THEN StoreItem(NullId, "undefined", "")
    ELSE IF history[1].id = id THEN history[1]
    ELSE Find(Tail(history), id)

\* history.filter(item => item.id < lastUserPromptId)
RECURSIVE FilterBefore(_, _)
FilterBefore(history, id) ==
    IF history = <<>> THEN <<>>
    ELSE IF history[1].id < id THEN <<history[1]>> \o FilterBefore(Tail(history), id)
    ELSE FilterBefore(Tail(history), id)

\* An editAndRetryFrom that keeps the history.
editAndRetryFromKeepsHistory(h, mode) ==
    IF h.mode # mode THEN h
    ELSE LET lastUserItem == Find(h.history, h.lastUserPromptId)
         IN  IF h.lastUserPromptId = NullId \/ lastUserItem.type # "user"
             THEN [h EXCEPT !.query = <<"", 0>>, !.mode = "input"]
             ELSE [h EXCEPT !.query = lastUserItem.content, !.mode = "input"]

editAndRetryFrom(h, mode) ==
    IF h.mode # mode THEN h
    ELSE IF h.lastUserPromptId = NullId
    THEN [h EXCEPT !.query = <<"", 0>>, !.mode = "input"]
    ELSE LET lastUserItem == Find(h.history, h.lastUserPromptId)
         IN  IF lastUserItem.type # "user"
             THEN [h EXCEPT !.query = <<"", 0>>, !.mode = "input"]
             ELSE [h EXCEPT !.history = FilterBefore(h.history, h.lastUserPromptId),
                            !.query = lastUserItem.content,
                            !.mode = "input"]

retryFrom(h, mode) == IF h.mode = mode THEN StartCall(h) ELSE h

CanCall == Len(hist.calls) < MaxTurns

\* The composer submits query: input().
HistoryInput ==
    /\ hist.mode = "input"
    /\ CanCall
    /\ LET userMessage == StoreItem(hist.nextId, "user", Query(hist.nextId))
       IN  hist' = HistoryStep(StartCall([hist EXCEPT
                                     !.history = Append(@, userMessage),
                                     !.lastUserPromptId = userMessage.id,
                                     !.nextId = @ + 1]),
                                  "input", "")
    /\ UNCHANGED <<arcVars, taskVars, fnVars, uiVars, liveVars>>

\* The error screen chooses "retry"; the mode it was rendered for is its
\* argument.
HistoryRetryFrom ==
    /\ CanCall
    /\ \E mode \in RetryModes :
          hist' = HistoryStep(retryFrom(hist, mode), "retryFrom", mode)
    /\ UNCHANGED <<arcVars, taskVars, fnVars, uiVars, liveVars>>

\* The error screen chooses "edit-retry".
HistoryEditAndRetryFrom ==
    /\ \E mode \in RetryModes :
          hist' = HistoryStep(editAndRetryFrom(hist, mode), "editAndRetryFrom", mode)
    /\ UNCHANGED <<arcVars, taskVars, fnVars, uiVars, liveVars>>

\* abortResponse: aborts the controller held by the mode data.  Of the
\* modes here "responding" holds one, that of the call whose handler set it.
HistoryAbortResponse(h) ==
    IF h.mode = "responding" /\ h.calls[h.abortController].pc = "arc"
    THEN [h EXCEPT !.calls[h.abortController].aborted = TRUE]
    ELSE h

clearHistory(h) == [HistoryAbortResponse(h) EXCEPT !.history = <<>>]

\* clearHistory is called in one of these modes.
HistoryClearIn(modes) ==
    /\ hist.mode \in modes
    /\ hist.history # <<>>
    /\ hist' = HistoryStep(clearHistory(hist), "clearHistory", "")
    /\ UNCHANGED <<arcVars, taskVars, fnVars, uiVars, liveVars>>

\* clearHistory, called from the menu.
HistoryClear == HistoryClearIn({"menu"})

\* clearHistory, called while a response may be in flight.
HistoryClearInFlight == HistoryClearIn({"input", "responding"})

\* Ctrl+P in the bottom bar: openMenu.
HistoryOpenMenu ==
    /\ hist.mode # "menu"
    /\ hist' = HistoryStep([hist EXCEPT !.mode = "menu"], "openMenu", "")
    /\ UNCHANGED <<arcVars, taskVars, fnVars, uiVars, liveVars>>

HistoryCloseMenu ==
    /\ hist.mode = "menu"
    /\ hist' = HistoryStep([hist EXCEPT !.mode = "input"], "closeMenu", "")
    /\ UNCHANGED <<arcVars, taskVars, fnVars, uiVars, liveVars>>

\* ensureAgents returned: `const historyCopy = [...get().history]`.
HistoryCopied(c) ==
    /\ c \in 1..Len(hist.calls)
    /\ hist.calls[c].pc = "loading"
    /\ hist' = HistoryStep([hist EXCEPT !.calls[c] = HistoryCall("arc", hist.history, FALSE)],
                           "_runAgent", "")
    /\ UNCHANGED <<arcVars, taskVars, fnVars, uiVars, liveVars>>

\* A handler of the call is invoked: startResponse and responseProgress set
\* the mode; compactionParsed and retryTool write the copy and the new items
\* to the history.
HistoryHandler(c) ==
    /\ c \in 1..Len(hist.calls)
    /\ hist.calls[c].pc = "arc"
    /\ \/ hist' = HistoryStep([hist EXCEPT !.mode = "responding", !.abortController = c],
                               "startResponse", "")
       \/ /\ hist.nextId <= MaxInterimIds
          /\ hist' = HistoryStep(
                [hist EXCEPT !.history = hist.calls[c].historyCopy
                                         \o <<StoreItem(hist.nextId, "output", "")>>,
                             !.nextId = @ + 1],
                "retryTool", "")
    /\ UNCHANGED <<arcVars, taskVars, fnVars, uiVars, liveVars>>

\* trajectoryArc returns a Finish without a tool call:
\* `historyCopy.push(...outputToHistory(finish.irs)); set({ history })`.
\* The Finish of a response has an item, the Finish of a failed request
\* none; an arc whose signal is aborted may finish with abort, with the
\* items it had made or none.
HistoryFinish(c) ==
    /\ c \in 1..Len(hist.calls)
    /\ hist.calls[c].pc = "arc"
    /\ \E reason \in {"needs-response", "request-error"}
                      \cup (IF hist.calls[c].aborted THEN {"abort"} ELSE {}),
          made \in {0, 1} :
          LET items == IF reason = "needs-response" THEN 1
                       ELSE IF reason = "abort" THEN made ELSE 0 IN
          hist' = HistoryStep(
                [hist EXCEPT !.history = hist.calls[c].historyCopy
                                         \o [i \in 1..items |->
                                               StoreItem(hist.nextId, "output", "")],
                             !.nextId = @ + items,
                             !.mode = IF reason = "request-error" THEN "request-error"
                                      ELSE "input",
                             !.calls[c] = HistoryCallDone],
                reason, "")
    /\ UNCHANGED <<arcVars, taskVars, fnVars, uiVars, liveVars>>

\* trajectoryArc throws CompactionRequestError.
HistoryCompactionFails(c) ==
    /\ c \in 1..Len(hist.calls)
    /\ hist.calls[c].pc = "arc"
    /\ hist' = HistoryStep(
          [hist EXCEPT !.history = Append(@, StoreItem(hist.nextId, "compaction-failed", "")),
                       !.nextId = @ + 1,
                       !.mode = "compaction-error",
                       !.calls[c] = HistoryCallDone],
          "CompactionRequestError", "")
    /\ UNCHANGED <<arcVars, taskVars, fnVars, uiVars, liveVars>>

NextHistory ==
    \/ HistoryInput
    \/ HistoryRetryFrom
    \/ HistoryEditAndRetryFrom
    \/ HistoryClear
    \/ HistoryOpenMenu
    \/ HistoryCloseMenu
    \/ \E c \in 1..MaxTurns : HistoryCopied(c)
    \/ \E c \in 1..MaxTurns : HistoryHandler(c)
    \/ \E c \in 1..MaxTurns : HistoryFinish(c)
    \/ \E c \in 1..MaxTurns : HistoryCompactionFails(c)

(***************************************************************************)
(*             WIRE TEXT OF THE DELEGATION OBSERVATIONS                    *)
(*                                                                         *)
(* The text that the task tool returns (buildObservedTaskOutput,           *)
(* buildParallelObservedTaskOutput) and the parser of the interface        *)
(* (parseTaskObservationBlock, parseTaskObservationsFromToolOutput).  The  *)
(* text is a sequence of pieces: a space, a line break, a key or tag of    *)
(* the format (one piece, counted as one character) or a run of other      *)
(* characters without white space.                                         *)
(***************************************************************************)

\* The number of observations of a batch.
MaxBatch == 2

Word(w, chars) == Piece(w, NoMessage, 1, chars)

Key(k) == Piece(k, NoMessage, 1, 1)

Space == Key(" ")

Newline == Key("\n")

\* \s
IsSpace(piece) == piece.tag \in {" ", "\n", "\n\n"}

\* What `.` does not match.
IsNewline(piece) == piece.tag \in {"\n", "\n\n"}

\* The least position of the set, 0 when it is empty.
First(S) == IF S = {} THEN 0 ELSE CHOOSE i \in S : \A j \in S : i <= j

\* String.prototype.trim
RECURSIVE TrimStart(_)
TrimStart(text) ==
    IF text # <<>> /\ IsSpace(text[1]) THEN TrimStart(Tail(text)) ELSE text

RECURSIVE TrimEnd(_)
TrimEnd(text) ==
    IF text # <<>> /\ IsSpace(text[Len(text)])
    THEN TrimEnd(SubSeq(text, 1, Len(text) - 1)) ELSE text

Trim(text) == TrimEnd(TrimStart(text))

\* lines.join("\n")
RECURSIVE JoinLines(_)
JoinLines(lines) ==
    IF lines = <<>> THEN <<>>
    ELSE IF Len(lines) = 1 THEN lines[1]
    ELSE lines[1] \o <<Newline>> \o JoinLines(Tail(lines))

\* The lines of one observation, as both builders write them.
ObservedLines(o) ==
    << <<Key("task_id:"), Space>> \o o.taskId,
       <<Key("task_subagent:"), Space>> \o o.subagentName,
       <<Key("task_description:"), Space>> \o o.description,
       <<>>,
       <<Key("<task_trace>")>>,
       o.trace,
       <<Key("</task_trace>")>>,
       <<>>,
       <<Key("<task_result>")>>,
       o.result,
       <<Key("</task_result>")>> >>

\* The text of a tool output: the join of the lines of the single
\* observation, or the count header, a blank line and the wrapped sections.
OutputText(content) ==
    IF content.format = "single"
    THEN JoinLines(ObservedLines(content.blocks[1]))
    ELSE JoinLines(
           << <<Key("task_parallel_count:"), Space, Word("count", 1)>>, <<>> >>
           \o [k \in 1..Len(content.blocks) |->
                 JoinLines(<< <<Key("<task_observation>")>> >>
                           \o ObservedLines(content.blocks[k])
                           \o << <<Key("</task_observation>")>> >>)])

\* content.match(/^key\s*(.+)$/m)?.[1]?.trim(), <<>> when there is no match:
\* \s* runs over spaces and line breaks up to the first other character, and
\* (.+) takes the rest of that character's line.  With nothing but white
\* space after the key the capture is white space or there is no match.
Field(content, key) ==
    LET k == First({i \in 1..Len(content) :
                      content[i].tag = key /\ (i = 1 \/ IsNewline(content[i - 1]))})
        q == First({i \in (k + 1)..Len(content) : ~IsSpace(content[i])})
        eol == First({i \in q..Len(content) : IsNewline(content[i])})
        last == IF eol = 0 THEN Len(content) ELSE eol - 1
    IN  IF k = 0 \/ q = 0 THEN <<>> ELSE Trim(SubSeq(content, q, last))

\* The first match of /open\n?([\s\S]*?)\n?close/: from the first opening tag
\* that has a closing tag after it to the first such closing tag.
OpenAt(content, open, close) ==
    First({i \in 1..Len(content) :
             /\ content[i].tag = open
             /\ \E j \in (i + 1)..Len(content) : content[j].tag = close})

CloseAfter(content, a, close) ==
    First({j \in (a + 1)..Len(content) : content[j].tag = close})

\* The capture of that match: without the line break after the opening tag
\* and the one before the closing tag.
Captured(content, a, b) ==
    LET lo == IF a + 1 < b /\ content[a + 1].tag = "\n" THEN a + 2 ELSE a + 1
        hi == IF lo < b /\ content[b - 1].tag = "\n" THEN b - 2 ELSE b - 1
    IN  SubSeq(content, lo, hi)

\* match ? match[1].trim() : ""
Enclosed(content, open, close) ==
    LET a == OpenAt(content, open, close) IN
    IF a = 0 THEN <<>>
    ELSE Trim(Captured(content, a, CloseAfter(content, a, close)))

parseTaskObservationBlock(content) ==
    LET id == Field(content, "task_id:")
        subagentName == Field(content, "task_subagent:")
        description == Field(content, "task_description:")
    IN  IF id = <<>> \/ subagentName = <<>> \/ description = <<>>
        THEN NoObservation
        ELSE Observation(id, subagentName, description,
                         Enclosed(content, "<task_trace>", "</task_trace>"),
                         Enclosed(content, "<task_result>", "</task_result>"))

\* content.matchAll(/<task_observation>\n?([\s\S]*?)\n?<\/task_observation>/gm)
RECURSIVE WrappedMatches(_)
WrappedMatches(content) ==
    LET a == OpenAt(content, "<task_observation>", "</task_observation>")
        b == CloseAfter(content, a, "</task_observation>")
    IN  IF a = 0 THEN <<>>
        ELSE <<Captured(content, a, b)>>
             \o WrappedMatches(SubSeq(content, b + 1, Len(content)))

Parsed(o) == o # NoObservation

parseTaskObservationsFromToolOutput(content) ==
    LET wrappedMatches == WrappedMatches(content)
        single == parseTaskObservationBlock(content)
    IN  IF wrappedMatches # <<>>
        THEN SelectSeq([k \in 1..Len(wrappedMatches) |->
                          parseTaskObservationBlock(wrappedMatches[k])], Parsed)
        ELSE IF Parsed(single) THEN <<single>> ELSE <<>>

parseTaskObservationFromToolOutput(content) ==
    LET observations == parseTaskObservationsFromToolOutput(content) IN
    IF observations = <<>> THEN NoObservation ELSE observations[1]

\* The blocks given to the parser: each key line is absent, has no value or
\* has one; each tagged section is missing, blank or has content.
FieldChoices == {"absent", "empty", "value"}

SectionChoices == {"missing", "blank", "content"}

BlockChoices ==
    [id : FieldChoices, subagent : FieldChoices, description : FieldChoices,
     trace : SectionChoices, result : SectionChoices]

NoBlock ==
    [id |-> "absent", subagent |-> "absent", description |-> "absent",
     trace |-> "missing", result |-> "missing"]

TaskIdText(k) ==
    <<Word(CASE k = 1 -> "task_a" [] k = 2 -> "task_b" [] OTHER -> "task_c", 1)>>

SubagentText == <<Word("explore", 1)>>

DescriptionText == <<Word("scan", 1), Space, Word("repo", 1)>>

FieldLines(key, choice, value) ==
    CASE choice = "absent" -> <<>>
      [] choice = "empty"  -> << <<Key(key), Space>> >>
      [] OTHER             -> << <<Key(key), Space>> \o value >>

SectionLines(open, close, choice, body) ==
    CASE choice = "missing" -> <<>>
      [] choice = "blank"   -> << <<>>, <<Key(open)>>, <<>>, <<Key(close)>> >>
      [] OTHER              -> << <<>>, <<Key(open)>>, body, <<Key(close)>> >>

BlockText(block) ==
    JoinLines(FieldLines("task_id:", block.id, TaskIdText(1))
              \o FieldLines("task_subagent:", block.subagent, SubagentText)
              \o FieldLines("task_description:", block.description, DescriptionText)
              \o SectionLines("<task_trace>", "</task_trace>", block.trace,
                              <<Word("[tool-request] list", 1)>>)
              \o SectionLines("<task_result>", "</task_result>", block.result,
                              <<Word("Found key files", 1)>>))

\* The traces and results of the observations given to the builders: empty,
\* one or two lines, longer than the cap of a batch, longer than the cap of
\* a single result, and output that quotes a tag of the format.
TraceTexts ==
    { <<>>,
      <<Word("[assistant]", 1)>>,
      <<Word("[tool-request] list", 1), Newline, Word("[assistant]", 1)>>,
      <<Word("[user]", PARALLEL_TRACE_CHARS), Word("[assistant]", 1)>>,
      <<Word("[user]", SINGLE_TRACE_CHARS), Word("[assistant]", 1)>>,
      <<Word("[tool-output]", 1), Newline, Key("</task_trace>")>> }

ResultTexts ==
    { <<>>,
      <<Word("Found key files", 1)>>,
      <<Word("Found", PARALLEL_RESULT_CHARS), Word("files", 1)>>,
      <<Word("Found", SINGLE_RESULT_CHARS), Word("files", 1)>> }

\* The observations the k-th task of a call can end with.
Observations(k) ==
    {Observation(TaskIdText(k), SubagentText, DescriptionText, trace, res) :
        trace \in TraceTexts, res \in ResultTexts}

Batches ==
    UNION {{os \in [1..n -> UNION {Observations(k) : k \in 1..n}] :
              \A k \in 1..n : os[k] \in Observations(k)} : n \in 1..MaxBatch}

WireInput(op, block, observations) ==
    [op |-> op, block |-> block, observations |-> observations]

WireInputs ==
    {WireInput("block", block, <<>>) : block \in BlockChoices}
    \cup {WireInput("single", NoBlock, <<o>>) : o \in Observations(1)}
    \cup {WireInput("batch", NoBlock, os) : os \in Batches}

WireOutput(content, text, parsed) ==
    [content |-> content, text |-> text, parsed |-> parsed]

WireInit == fnIn \in WireInputs /\ fnOut = <<>>

\* The parser is given a block.
ParseBlock ==
    /\ fnOut = <<>> /\ fnIn.op = "block"
    /\ fnOut' = <<WireOutput(NoContent, BlockText(fnIn.block),
                             <<parseTaskObservationBlock(BlockText(fnIn.block))>>)>>
    /\ UNCHANGED fnIn
    /\ UNCHANGED <<arcVars, taskVars, uiVars, histVars, liveVars>>

\* A single task ends: the tool returns buildObservedTaskOutput(observation),
\* and the interface parses the output.
ObserveSingle ==
    /\ fnOut = <<>> /\ fnIn.op = "single"
    /\ LET content == buildObservedTaskOutput(fnIn.observations[1]) IN
       fnOut' = <<WireOutput(content, OutputText(content),
                    <<parseTaskObservationFromToolOutput(OutputText(content))>>)>>
    /\ UNCHANGED fnIn
    /\ UNCHANGED <<arcVars, taskVars, uiVars, histVars, liveVars>>

\* A batch ends: the tool returns buildParallelObservedTaskOutput, and the
\* interface parses the output.
ObserveBatch ==
    /\ fnOut = <<>> /\ fnIn.op = "batch"
    /\ LET content == buildParallelObservedTaskOutput(fnIn.observations) IN
       fnOut' = <<WireOutput(content, OutputText(content),
                    parseTaskObservationsFromToolOutput(OutputText(content)))>>
    /\ UNCHANGED fnIn
    /\ UNCHANGED <<arcVars, taskVars, uiVars, histVars, liveVars>>

NextWire == ParseBlock \/ ObserveSingle \/ ObserveBatch

(***************************************************************************)
(*              LIVE PROGRESS OF A DELEGATION TOOL CALL                    *)
(*                                                                         *)
(* The Live Progress Registry with its updatedAt stamps, written by the    *)
(* task tool, and the poll of runTool that republishes it in the store.    *)
(* The delegation call has the tool-call id LiveCall and one planned task; *)
(* OtherCall is a tool-call id that no delegation call starts.  poll holds *)
(* the runTool call (pc, lastLiveUpdate), the live fields of the store it  *)
(* sets, whether startLiveTaskRun was called, the runs that ensureRun      *)
(* created for an append or a result, the number of registry operations    *)
(* and the last step (op) with its arguments.  The store holds the         *)
(* observation objects of the registry; here it holds their values as      *)
(* they were when published.                                               *)
(***************************************************************************)

\* The number of registry operations of one behaviour, and the latest time.
MaxLiveOps == 3

MaxClock == 2

LiveCall == 1

OtherCall == 2

LiveTask ==
    [taskId |-> makeLiveTaskID(LiveCall, 0), subagentName |-> "general",
     description |-> "d"]

\* A task id that is not planned by the call.
UnknownTaskId == <<"id", 9, 0>>

LiveTaskIds == {LiveTask.taskId, UnknownTaskId}

LiveText == <<Line("x", NoMessage)>>

NoOp == [name |-> "", toolCallId |-> 0, taskId |-> NoId]

LiveOp(name, toolCallId, taskId) ==
    [name |-> name, toolCallId |-> toolCallId, taskId |-> taskId]

NoPoll ==
    [pc |-> "idle",
     lastLiveUpdate |-> -1,
     liveTaskObservations |-> EmptyMap,
     liveTaskObservationOrder |-> <<>>,
     started |-> FALSE,
     created |-> {},
     ops |-> 0,
     op |-> NoOp]

\* A poll that republishes nothing once it has published.
syncLiveProgressOnce(p, rs, toolCallId) ==
    LET snapshot == getLiveTaskRun(rs, toolCallId) IN
    IF snapshot = Null THEN p
    ELSE IF p.lastLiveUpdate # -1 THEN p
    ELSE [p EXCEPT !.lastLiveUpdate = snapshot[1].updatedAt,
                   !.liveTaskObservations = snapshot[1].observations,
                   !.liveTaskObservationOrder = snapshot[1].order]

\* syncLiveProgress of a task call: nothing without a snapshot or with the
\* updatedAt seen last; otherwise the observations of the ids of the order
\* and the order are set.
syncLiveProgress(p, rs, toolCallId) ==
    LET snapshot == getLiveTaskRun(rs, toolCallId) IN
    IF snapshot = Null THEN p
    ELSE IF snapshot[1].updatedAt = p.lastLiveUpdate THEN p
    ELSE [p EXCEPT !.lastLiveUpdate = snapshot[1].updatedAt,
                   !.liveTaskObservations =
                       [t \in {snapshot[1].order[k] : k \in 1..Len(snapshot[1].order)}
                              \cap DOMAIN snapshot[1].observations |->
                           snapshot[1].observations[t]],
                   !.liveTaskObservationOrder = snapshot[1].order]

\* The runs that exist only because ensureRun made them for an append or a
\* result: those of `created` and the one this operation makes.
CreatedBy(toolCallId) ==
    IF toolCallId \in DOMAIN runs THEN poll.created
    ELSE poll.created \cup {toolCallId}

\* The registry operation `name` was applied.
Operated(name, toolCallId, taskId, created) ==
    [poll EXCEPT !.ops = @ + 1, !.created = created,
                 !.op = LiveOp(name, toolCallId, taskId)]

CanOperate == poll.ops < MaxLiveOps

\* Time passes.
TimePasses ==
    /\ clock < MaxClock
    /\ clock' = clock + 1
    /\ UNCHANGED <<poll, runs, taskSessions, heap, call, used>>
    /\ UNCHANGED <<arcVars, fnVars, uiVars, histVars>>

\* runTool of the delegation call up to its first await: the provisional
\* observations are set, syncLiveProgress runs once and the interval starts.
PollStarts ==
    /\ poll.pc = "idle"
    /\ poll' = [syncLiveProgress(
                   [poll EXCEPT !.pc = "tool",
                                !.liveTaskObservations =
                                    [t \in {LiveTask.taskId} |-> LiveTask],
                                !.liveTaskObservationOrder = <<LiveTask.taskId>>],
                   runs, LiveCall)
                  EXCEPT !.op = LiveOp("runTool", LiveCall, NoId)]
    /\ UNCHANGED <<clock, taskVars>>
    /\ UNCHANGED <<arcVars, fnVars, uiVars, histVars>>

\* A tick of setInterval(syncLiveProgress, 300).
PollTick ==
    /\ poll.pc = "tool"
    /\ poll' = [syncLiveProgress(poll, runs, LiveCall)
                  EXCEPT !.op = LiveOp("syncLiveProgress", LiveCall, NoId)]
    /\ UNCHANGED <<clock, taskVars>>
    /\ UNCHANGED <<arcVars, fnVars, uiVars, histVars>>

\* The tool run of runTool settles: the live fields are emptied, the interval
\* is cleared and clearLiveTaskRun is called.
PollEnds ==
    /\ poll.pc = "tool"
    /\ poll' = [poll EXCEPT !.pc = "done",
                            !.liveTaskObservations = EmptyMap,
                            !.liveTaskObservationOrder = <<>>,
                            !.created = @ \ {LiveCall},
                            !.op = LiveOp("clearLiveTaskRun", LiveCall, NoId)]
    /\ runs' = clearLiveTaskRun(runs, LiveCall)
    /\ UNCHANGED <<clock, taskSessions, heap, call, used>>
    /\ UNCHANGED <<arcVars, fnVars, uiVars, histVars>>

\* run() of the task tool begins: startLiveTaskRun, once and before any
\* other write of the call.
LiveStarts ==
    /\ CanOperate /\ poll.pc = "tool" /\ ~poll.started
    /\ runs' = startLiveTaskRun(runs, LiveCall, <<LiveTask>>)
    /\ poll' = [Operated("startLiveTaskRun", LiveCall, NoId, poll.created)
                  EXCEPT !.started = TRUE]
    /\ UNCHANGED <<clock, taskSessions, heap, call, used>>
    /\ UNCHANGED <<arcVars, fnVars, uiVars, histVars>>

\* The tool-call ids written to: the delegation call once it has started,
\* and the id that no call starts.
Writable == (IF poll.started THEN {LiveCall} ELSE {}) \cup {OtherCall}

LiveAppends ==
    /\ CanOperate
    /\ \E toolCallId \in Writable, taskId \in LiveTaskIds :
        /\ runs' = appendLiveTaskTrace(runs, toolCallId, taskId, LiveText)
        /\ poll' = Operated("appendLiveTaskTrace", toolCallId, taskId,
                            CreatedBy(toolCallId))
    /\ UNCHANGED <<clock, taskSessions, heap, call, used>>
    /\ UNCHANGED <<arcVars, fnVars, uiVars, histVars>>

LiveSetsResult ==
    /\ CanOperate
    /\ \E toolCallId \in Writable, taskId \in LiveTaskIds :
        /\ runs' = setLiveTaskResult(runs, toolCallId, taskId, LiveText)
        /\ poll' = Operated("setLiveTaskResult", toolCallId, taskId,
                            CreatedBy(toolCallId))
    /\ UNCHANGED <<clock, taskSessions, heap, call, used>>
    /\ UNCHANGED <<arcVars, fnVars, uiVars, histVars>>

LiveMarksFailed ==
    /\ CanOperate
    /\ \E toolCallId \in Writable, taskId \in LiveTaskIds :
        /\ runs' = markLiveTaskFailed(runs, toolCallId, taskId, NoMessage)
        /\ poll' = Operated("markLiveTaskFailed", toolCallId, taskId,
                            CreatedBy(toolCallId))
    /\ UNCHANGED <<clock, taskSessions, heap, call, used>>
    /\ UNCHANGED <<arcVars, fnVars, uiVars, histVars>>

\* clearLiveTaskRun: the finally of run() for the delegation call, or a
\* caller's for the other id.
LiveClears ==
    /\ CanOperate
    /\ \E toolCallId \in Writable :
        /\ runs' = clearLiveTaskRun(runs, toolCallId)
        /\ poll' = Operated("clearLiveTaskRun", toolCallId, NoId,
                            poll.created \ {toolCallId})
    /\ UNCHANGED <<clock, taskSessions, heap, call, used>>
    /\ UNCHANGED <<arcVars, fnVars, uiVars, histVars>>

NextLive ==
    \/ TimePasses
    \/ PollStarts
    \/ PollTick
    \/ PollEnds
    \/ LiveStarts
    \/ LiveAppends
    \/ LiveSetsResult
    \/ LiveMarksFailed
    \/ LiveClears

(***************************************************************************)
(*                          SPECIFICATIONS                                 *)
(***************************************************************************)

\* No function is being applied.
FnIdle == fnIn = <<>> /\ fnOut = <<>>

\* The orchestration store as it is created.
UiIdle == ui = InitialStore /\ hist = InitialHistory /\ clock = 0 /\ poll = NoPoll

InitArc == ArcInit /\ TaskInit /\ FnIdle /\ UiIdle

SpecArc == InitArc /\ [][NextArc]_vars

InitTask == ArcIdle /\ TaskInit /\ FnIdle /\ UiIdle

InitStore == ArcIdle /\ FullStoreInit /\ FnIdle /\ UiIdle

SpecStore == InitStore /\ [][NextTask]_vars

InitCompact == ArcIdle /\ TaskInit /\ CompactInit /\ UiIdle

SpecCompact == InitCompact /\ [][Compact]_vars

InitRegistry ==
    /\ ArcIdle /\ UiIdle /\ RegistryInit
    /\ taskSessions = <<>> /\ heap = <<>> /\ call = IdleCall
    /\ used = [tasks |-> 0, arcs |-> 0]

SpecRegistry == InitRegistry /\ [][NextRegistry]_vars

InitUi == ArcIdle /\ TaskInit /\ FnIdle /\ UiIdle

SpecUi == InitUi /\ [][NextUi]_vars

SpecUiLive == SpecUi /\ UiFairness

InitValidate == ArcIdle /\ TaskInit /\ ValidateInit /\ UiIdle

SpecValidate == InitValidate /\ [][Validate]_vars

SpecTask == InitTask /\ [][NextTask]_vars

NextBatch ==
    \/ BatchStart
    \/ TaskAbortFires
    \/ \E k \in 1..MaxTasks : TaskArcReturns(k)
    \/ \E k \in 1..MaxTasks : TaskToolReturns(k)

InitBatch == ArcIdle /\ TaskInit /\ FnIdle /\ UiIdle

SpecBatch == InitBatch /\ [][NextBatch]_vars

InitBuffer == ArcIdle /\ TaskInit /\ BufferInit /\ UiIdle

SpecBuffer == InitBuffer /\ [][OnTokens]_vars

InitHistory == ArcIdle /\ TaskInit /\ FnIdle /\ UiIdle

SpecHistory == InitHistory /\ [][NextHistory]_vars

NextClear ==
    \/ HistoryInput
    \/ HistoryClear
    \/ HistoryClearInFlight
    \/ HistoryOpenMenu
    \/ HistoryCloseMenu
    \/ \E c \in 1..MaxTurns : HistoryCopied(c)
    \/ \E c \in 1..MaxTurns : HistoryHandler(c)
    \/ \E c \in 1..MaxTurns : HistoryFinish(c)

SpecClear == InitHistory /\ [][NextClear]_vars

\* The builders and the parser of the delegation observations.
InitWire == ArcIdle /\ TaskInit /\ WireInit /\ UiIdle

SpecWire == InitWire /\ [][NextWire]_vars

\* The registry with its stamps and the poll of runTool.
InitLive == ArcIdle /\ TaskInit /\ FnIdle /\ UiIdle

SpecLive == InitLive /\ [][NextLive]_vars

(***************************************************************************)
(*                 PROPERTIES OF THE TRAJECTORY ARC ENGINE                 *)
(***************************************************************************)

Range(seq) == {seq[i] : i \in 1..Len(seq)}

ArcSettled == result.reason # "none"

RecoveryKinds == {"malformed", "stale", "toolerr"}

\* C1: when every model turn ended in a malformed tool call and the abort
\* signal never fired, a call started with budget B that has returned was
\* invoked exactly B+1 times and finished with request-error.
C1_MalformedOnlyBackend ==
    (ArcSettled /\ result.reason # "thrown" /\ ~aborted /\ onlyMalformed)
        => (invocations = budget0 + 1 /\ result.reason = "request-error")

\* C1 witness: a call with a positive budget that a malformed-only backend
\* drove to request-error.
C1_Witness ==
    /\ ArcSettled /\ ~aborted /\ onlyMalformed
    /\ budget0 >= 1
    /\ result.reason = "request-error"
    /\ invocations = budget0 + 1

\* C2: every nested invocation runs with a retryBudget that is not negative,
\* and that is exactly one less than its caller's, whichever kind of retry
\* (malformed tool call, stale file, tool validation error) started it.
C2_BudgetThreaded ==
    \A i \in 1..Len(stack) :
        /\ stack[i].retryBudget >= 0
        /\ stack[i].retryBudget <= budget0
        /\ i > 1 => /\ stack[i - 1].pc = "retrying"
                    /\ stack[i - 1].ended \in RecoveryKinds
                    /\ stack[i].retryBudget = stack[i - 1].retryBudget - 1
                    /\ stack[i].retryBudget = budget0 - (i - 1)

\* C2 witness: a chain of three invocations whose two retries were of
\* different kinds.
C2_Witness ==
    /\ Len(stack) = 3
    /\ stack[1].ended = "stale"
    /\ stack[2].ended = "toolerr"
    /\ stack[3].retryBudget = budget0 - 2

\* What C3 asks of an invocation whose turn needed recovery with no budget
\* left: it has returned `reason`, it is the innermost invocation, and neither
\* a retryTool callback nor a further invocation came from it.
ExhaustedIsTerminal(i, reason) ==
    /\ stack[i].pc = "returned"
    /\ stack[i].finish.reason = reason
    /\ i = Len(stack)
    /\ "retryTool" \notin Range(events)
    /\ invocations = i
    /\ retryTools = i - 1

C4_OutputIsConcatenation ==
    (\/ result.reason \in {"needs-response", "request-tool"}
     \/ (result.reason = "request-error"
         /\ result.detail \in {ExhaustedMessage(k) : k \in RecoveryKinds}))
        => result.irs = appended


(***************************************************************************)
(*              PROPERTIES OF THE SUBAGENT DELEGATION SERVICE              *)
(***************************************************************************)

IsBatch == Len(call.args.parallel_tasks) > 0

IsSingle == call.pc # "idle" /\ ~IsBatch

CallDone == call.pc \in {"returned", "raised"}

FailureLines(text) == {k \in 1..Len(text) : text[k].tag = "[task-error]"}

\* An observation that reports a task failure with message m.
ReportsFailure(block, m) ==
    /\ \E k \in FailureLines(block.trace) : block.trace[k].msg = m
    /\ block.result # <<>>
    /\ block.result[1] = Line("Subagent task failed: ", m)

\* C5: a batch call is running exactly while one of its tasks has not
\* settled, it raises only when the signal was aborted before any task
\* started, and when it has returned its content has one block per task, in
\* order: a failure observation with the error's message for a task that
\* threw, the task's own observation for every other task.
C5_BatchIsolatesFailures ==
    (call.pc # "idle" /\ IsBatch) =>
        /\ call.pc = "running" <=> \E k \in 1..Len(call.tasks) : ~Settled(call.tasks[k])
        /\ call.pc = "raised" => call.tasks = <<>>
        /\ call.pc = "returned" =>
              /\ call.content.format = "parallel"
              /\ Len(call.content.blocks) = Len(call.args.parallel_tasks)
              /\ Len(call.tasks) = Len(call.args.parallel_tasks)
              /\ \A k \in 1..Len(call.tasks) :
                    LET task == call.tasks[k]
                        block == call.content.blocks[k]
                    IN  /\ block.taskId = task.entry.taskId
                        /\ task.pc = "rejected" => ReportsFailure(block, task.reason.message)
                        /\ task.pc = "fulfilled" => block = task.value

C5_Witness ==
    /\ IsBatch
    /\ call.pc = "returned"
    /\ Len(call.tasks) = 2
    /\ call.tasks[1].pc = "rejected"
    /\ call.tasks[2].pc = "fulfilled"
    /\ call.tasks[2].arcs >= 1
    /\ ReportsFailure(call.content.blocks[1], call.tasks[1].reason.message)

\* C6: the registry holds an entry for the tool call id of a call exactly
\* while the call is running: the snapshot of a running call is not null,
\* and the snapshot of every call that returned or raised is null.
C6_RegistryEntryLivesWithCall ==
    /\ call.pc = "running" => getLiveTaskRun(runs, call.toolCallId) # Null
    /\ CallDone => getLiveTaskRun(runs, call.toolCallId) = Null
    /\ \A id \in 1..(call.toolCallId - 1) : getLiveTaskRun(runs, id) = Null
    /\ DOMAIN runs \subseteq 1..call.toolCallId

C6_Witness ==
    /\ call.toolCallId = 2
    /\ call.pc = "raised"
    /\ call.tasks # <<>>
    /\ call.tasks[1].arcs >= 1
    /\ getLiveTaskRun(runs, 1) = Null
    /\ getLiveTaskRun(runs, 2) = Null

\* An error that counts as a cancellation: an AbortError, or a message
\* that contains "aborted".
AbortLike(error) ==
    \/ error.class = "AbortError"
    \/ error.name = "AbortError"
    \/ error.message.text \in {"Aborted by user", "The operation was aborted", "socket aborted"}

\* C7: a single-invocation call that is over raised only the cancellation
\* ToolError "Aborted by user"; it raised it when the signal was aborted
\* before the task started, or when its task threw an abort-like error or
\* threw while the signal was set; when its task threw any other error it
\* returned the failure observation of that error.
C7_SingleCancellationOrFailure ==
    (IsSingle /\ CallDone) =>
        /\ call.pc = "raised" => call.error = ToolError(USER_ABORTED_ERROR_MESSAGE)
        /\ call.tasks = <<>> => (call.pc = "raised" /\ call.aborted)
        /\ call.tasks # <<>> =>
              LET task == call.tasks[1]
              IN  /\ Len(call.tasks) = 1
                  /\ (task.pc = "rejected" /\ (AbortLike(task.reason) \/ call.aborted))
                        => call.pc = "raised"
                  /\ (task.pc = "rejected" /\ ~AbortLike(task.reason) /\ ~call.aborted)
                        => /\ call.pc = "returned"
                           /\ call.content.format = "single"
                           /\ ReportsFailure(call.content.blocks[1], task.reason.message)
                  /\ task.pc = "fulfilled" => call.pc = "returned"

C7_Witness ==
    /\ IsSingle
    /\ call.pc = "raised"
    /\ ~call.aborted
    /\ call.tasks # <<>>
    /\ call.tasks[1].pc = "rejected"
    /\ call.tasks[1].reason.message.text = "socket aborted"
    /\ call.error = ToolError(USER_ABORTED_ERROR_MESSAGE)

\* C8: a call whose abort signal fired returns no observation that reports
\* the abort ("Aborted by user") as a task failure, neither in a
\* [task-error] line of its trace nor in its result.
C8_AbortNeverReportedAsFailure ==
    (call.pc = "returned" /\ call.aborted) =>
        \A k \in 1..Len(call.content.blocks) :
            LET block == call.content.blocks[k]
            IN  /\ \A j \in FailureLines(block.trace) :
                      block.trace[j].msg # USER_ABORTED_ERROR_MESSAGE
                /\ Line("Subagent task failed: ", USER_ABORTED_ERROR_MESSAGE)
                      \notin Range(block.result)

\* The session object stored under a key, 0 when there is none.
StoredUnder(store, key) ==
    IF \E k \in 1..Len(store) : store[k].key = key
    THEN (CHOOSE e \in Range(store) : e.key = key).obj
    ELSE 0

CallStarts == call'.toolCallId = call.toolCallId + 1

\* C9: when a call starts a task with a task_id stored in the Session Store
\* and the subagent of the stored session, the task runs on the stored
\* session object, which stays stored under the task_id, and the history of
\* the session is its history before the call followed by the prompt.
C9_ResumeAppendsToSession ==
    [][CallStarts =>
        \A k \in 1..Len(call'.tasks) :
            LET invocation == call'.tasks[k].entry.invocation
                obj == StoredUnder(taskSessions, invocation.task_id)
                total == IF Len(call'.args.parallel_tasks) > 0
                         THEN Len(call'.args.parallel_tasks) ELSE 0
                length == PrefixLength(total) + PromptLength(invocation.prompt)
            IN  (/\ invocation.task_id # NoId
                 /\ obj # 0
                 /\ heap[obj].subagentName = invocation.subagent_type)
                => /\ call'.tasks[k].session = obj
                   /\ call'.tasks[k].pc = "key"
                   /\ StoredUnder(taskSessions', invocation.task_id) = obj
                   /\ heap'[obj].id = heap[obj].id
                   /\ heap'[obj].subagentName = heap[obj].subagentName
                   /\ heap'[obj].history =
                        heap[obj].history \o
                        (IF length > 0
                         THEN <<HistoryItem("user", call'.toolCallId, length, TRUE)>>
                         ELSE <<>>)]_vars

C9_Witness ==
    /\ call.toolCallId = 2
    /\ call.pc = "running"
    /\ call.tasks[1].entry.invocation.task_id # NoId
    /\ LET history == heap[call.tasks[1].session].history
       IN  /\ Len(history) >= 3
           /\ history[1].call = 1
           /\ history[Len(history) - 1].call = 1
           /\ history[Len(history)] = HistoryItem("user", 2, 1, TRUE)

\* C10: when a call starts a task with a task_id stored in the Session
\* Store and another subagent than the one of the stored session, the task
\* throws the pinning error that names the task id and the subagent of the
\* stored session, runs no arc, and the stored session and its place in the
\* store stay as they were.
C10_PinningErrorKeepsSession ==
    [][CallStarts =>
        \A k \in 1..Len(call'.tasks) :
            LET invocation == call'.tasks[k].entry.invocation
                obj == StoredUnder(taskSessions, invocation.task_id)
            IN  (/\ invocation.task_id # NoId
                 /\ obj # 0
                 /\ heap[obj].subagentName # invocation.subagent_type)
                => /\ call'.tasks[k].pc = "rejected"
                   /\ call'.tasks[k].reason =
                        ToolError(Message("Task belongs to subagent. Resume it with that same subagent.",
                                          invocation.task_id, heap[obj].subagentName))
                   /\ call'.tasks[k].arcs = 0
                   /\ heap'[obj] = heap[obj]
                   /\ StoredUnder(taskSessions', invocation.task_id) = obj
                   /\ \A j \in 1..Len(taskSessions) :
                        taskSessions[j].key = invocation.task_id
                            => (j <= Len(taskSessions') /\ taskSessions'[j] = taskSessions[j])]_vars

C10_Witness ==
    /\ call.toolCallId = 2
    /\ IsSingle
    /\ call.pc = "returned"
    /\ call.tasks[1].pc = "rejected"
    /\ call.tasks[1].arcs = 0
    /\ call.tasks[1].reason.message.text =
          "Task belongs to subagent. Resume it with that same subagent."
    /\ call.tasks[1].reason.message.subagent # call.args.single.subagent_type
    /\ heap[StoredUnder(taskSessions, call.args.single.task_id)].subagentName
          = call.tasks[1].reason.message.subagent

(***************************************************************************)
(*                       PROPERTIES OF VALIDATION                          *)
(***************************************************************************)

\* The invocations validation looks at: parallel_tasks when there are any,
\* otherwise the top-level invocation.
EffectiveList(args) ==
    IF Len(args.parallel_tasks) > 0 THEN args.parallel_tasks ELSE <<args.single>>

SharesExplicitId(list) ==
    \E j, k \in 1..Len(list) :
        j # k /\ list[j].task_id # NoId /\ list[j].task_id = list[k].task_id

AllKnown(args) ==
    /\ args.single.subagent_type \in Candidates
    /\ \A k \in 1..Len(args.parallel_tasks) :
           args.parallel_tasks[k].subagent_type \in Candidates

\* C11: a validated call whose subagent names are all known is rejected,
\* with the duplicate-task_id error, exactly when two entries of its
\* effective list carry the same explicit task_id; otherwise it is accepted.
C11_DuplicateIdsRejected ==
    (fnOut # <<>> /\ AllKnown(fnIn)) =>
        IF SharesExplicitId(EffectiveList(fnIn))
        THEN fnOut[1] = ToolError(Message("Duplicate task_id in parallel_tasks", NoId, ""))
        ELSE fnOut[1] = NoError

C11_Witness ==
    /\ fnOut # <<>>
    /\ AllKnown(fnIn)
    /\ Len(fnIn.parallel_tasks) = 3
    /\ fnIn.parallel_tasks[1].task_id = fnIn.parallel_tasks[3].task_id
    /\ fnIn.parallel_tasks[1].task_id # NoId
    /\ fnIn.parallel_tasks[2].task_id = NoId
    /\ fnIn.single.task_id = fnIn.parallel_tasks[1].task_id
    /\ fnOut[1].message.text = "Duplicate task_id in parallel_tasks"

(***************************************************************************)
(*                     PROPERTIES OF THE SESSION STORE                     *)
(***************************************************************************)

StoreKeys(store) == {store[k].key : k \in 1..Len(store)}

StorePlace(store, key) == CHOOSE k \in 1..Len(store) : store[k].key = key

\* The sessions a step removes from the store, and those it leaves there.
Evicted == StoreKeys(taskSessions) \ StoreKeys(taskSessions')

Retained == StoreKeys(taskSessions) \cap StoreKeys(taskSessions')

\* The keys under which the call that starts in this step stores a session.
StoredNow ==
    IF call'.toolCallId = call.toolCallId + 1
    THEN {call'.tasks[k].entry.taskId :
             k \in {j \in 1..Len(call'.tasks) : call'.tasks[j].session # 0}}
    ELSE {}

\* A session object is created when it is put on the heap: the objects are
\* numbered in the order of their creation.
CreatedAt(store, key) == store[StorePlace(store, key)].obj

\* C12 as stated: the store never holds more than MAX_TASK_SESSIONS
\* sessions, and a session that is evicted was created before every session
\* that stays.
C12_EvictsEarliestCreated ==
    [][/\ Len(taskSessions') <= MAX_TASK_SESSIONS
       /\ \A e \in Evicted : \A f \in Retained :
              CreatedAt(taskSessions, e) < CreatedAt(taskSessions, f)]_vars

\* C12: the store never holds more than MAX_TASK_SESSIONS sessions, and a
\* session that is evicted is not one the step stored, and it was stored
\* (created or resumed) before every session that stays: a session that is
\* resumed moves behind the others.
C12_EvictsLeastRecentlyStored ==
    [][/\ Len(taskSessions') <= MAX_TASK_SESSIONS
       /\ \A e \in Evicted :
              /\ e \notin StoredNow
              /\ \A f \in Retained \ StoredNow :
                     StorePlace(taskSessions, e) < StorePlace(taskSessions, f)
       /\ \A g \in StoredNow \cap StoreKeys(taskSessions') :
              \A f \in Retained \ StoredNow :
                  StorePlace(taskSessions', f) < StorePlace(taskSessions', g)]_vars

\* The session created first was resumed, and a later task evicted the
\* session created second.
C12_Witness ==
    /\ Len(taskSessions) = MAX_TASK_SESSIONS
    /\ <<"id", 1, 0>> \in StoreKeys(taskSessions)
    /\ makeLiveTaskID(2, 0) \notin StoreKeys(taskSessions)
    /\ \E k \in 1..Len(taskSessions) : taskSessions[k].obj > MAX_TASK_SESSIONS

(***************************************************************************)
(*                       PROPERTIES OF COMPACTION                          *)
(***************************************************************************)

RECURSIVE TotalSize(_)
TotalSize(entries) ==
    IF entries = <<>> THEN 0 ELSE entries[1].size + TotalSize(Tail(entries))

\* The first item of a history is pinned when it is a user message.
Pinned(history) == history # <<>> /\ history[1].type = "user"

\* The items that are not pinned, by their numbers.
Unpinned(history) ==
    [k \in 1..(Len(history) - (IF Pinned(history) THEN 1 ELSE 0)) |->
        history[k + (IF Pinned(history) THEN 1 ELSE 0)].call]

IsSuffix(short, long) ==
    /\ Len(short) <= Len(long)
    /\ short = SubSeq(long, Len(long) - Len(short) + 1, Len(long))

\* What compaction keeps whatever the sizes: the item ceiling, the pinned
\* seed in the first place, and the most recent of the other items.
KeepsSeedAndNewest(before, after) ==
    /\ Len(after) <= MAX_SUBAGENT_HISTORY_ITEMS
    /\ Pinned(before) => (Pinned(after) /\ after[1].call = before[1].call)
    /\ IsSuffix(IF Pinned(before) THEN Tail([k \in 1..Len(after) |-> after[k].call])
                ELSE [k \in 1..Len(after) |-> after[k].call],
                Unpinned(before))

\* C13 as stated: a compacted history has at most MAX_SUBAGENT_HISTORY_ITEMS
\* items and an estimated size of at most MAX_SUBAGENT_HISTORY_CHARS, its
\* seed user message is still first, and the items removed are the oldest
\* that are not pinned.
C13_CompactedWithinBothCeilings ==
    fnOut # <<>> =>
        /\ KeepsSeedAndNewest(fnIn, fnOut[1])
        /\ TotalSize(fnOut[1]) <= MAX_SUBAGENT_HISTORY_CHARS

\* C13: a compacted history has at most MAX_SUBAGENT_HISTORY_ITEMS items, its
\* seed user message is still first, the items removed are the oldest that
\* are not pinned, and its estimated size is at most
\* MAX_SUBAGENT_HISTORY_CHARS unless the seed alone is larger, and then the
\* seed is all that is left.
C13_CompactedUnlessSeedTooLarge ==
    fnOut # <<>> =>
        /\ KeepsSeedAndNewest(fnIn, fnOut[1])
        /\ \/ TotalSize(fnOut[1]) <= MAX_SUBAGENT_HISTORY_CHARS
           \/ /\ Pinned(fnIn)
              /\ fnIn[1].size > MAX_SUBAGENT_HISTORY_CHARS
              /\ Len(fnOut[1]) = 1

C13_Witness ==
    /\ fnOut # <<>>
    /\ Len(fnIn) > MAX_SUBAGENT_HISTORY_ITEMS
    /\ Pinned(fnIn)
    /\ fnIn[1].size > MAX_SUBAGENT_HISTORY_CHARS
    /\ fnOut[1] = <<fnIn[1]>>

(***************************************************************************)
(*                  PROPERTIES OF THE PROGRESS REGISTRY                    *)
(***************************************************************************)

\* The trace written by the operations of log, had nothing been cut.
RECURSIVE WrittenTrace(_)
WrittenTrace(log) ==
    IF log = <<>> THEN LiveSeed(RegistryTask).trace
    ELSE LET last == log[Len(log)]
             before == WrittenTrace(SubSeq(log, 1, Len(log) - 1))
         IN  CASE last.op = "appendLiveTaskTrace" ->
                      before \o <<Separator, Line("x", last.msg)>>
               [] last.op = "markLiveTaskFailed" ->
                      before \o <<Separator, Line("[task-error]", last.msg)>>
               [] OTHER -> before

\* The result last set by the operations of log, had nothing been cut.
RECURSIVE WrittenResult(_)
WrittenResult(log) ==
    IF log = <<>> THEN LiveSeed(RegistryTask).result
    ELSE LET last == log[Len(log)]
         IN  CASE last.op = "setLiveTaskResult" -> <<Line("x", last.msg)>>
               [] last.op = "markLiveTaskFailed" ->
                      <<Line("Subagent task failed: ", last.msg)>>
               [] OTHER -> WrittenResult(SubSeq(log, 1, Len(log) - 1))

\* A text without its empty pieces.
Visible(text) == SelectSeq(text, LAMBDA piece : piece.hi >= piece.lo)

RECURSIVE Size(_)
Size(text) == IF text = <<>> THEN 0 ELSE (text[1].hi - text[1].lo + 1) + Size(Tail(text))

\* The last n characters of a text.
RECURSIVE Trailing(_, _)
Trailing(text, n) ==
    IF Size(text) <= n THEN text
    ELSE IF Size(Tail(text)) >= n THEN Trailing(Tail(text), n)
    ELSE <<[text[1] EXCEPT !.lo = text[1].hi - (n - Size(Tail(text))) + 1]>> \o Tail(text)

\* stored is written whole, or it is the marker and the last maxChars
\* characters of written.
KeepsTrailing(stored, written, maxChars) ==
    /\ Size(stored) <= maxChars + Size(<<TruncationMarker>>)
    /\ \/ Visible(stored) = Visible(written)
       \/ /\ Size(written) > maxChars
          /\ Visible(stored) = <<TruncationMarker>> \o Visible(Trailing(written, maxChars))

\* C14: after any operations on a started run its trace has at most
\* MAX_TRACE_CHARS characters and its result at most MAX_RESULT_CHARS, the
\* marker not counted, and a text that was cut is the marker followed by the
\* last characters of what was written.
C14_TraceAndResultKeepTail ==
    (1 \in DOMAIN runs /\ RegistryTask.taskId \in DOMAIN runs[1].observations) =>
        LET observation == runs[1].observations[RegistryTask.taskId]
        IN  /\ KeepsTrailing(observation.trace, WrittenTrace(fnIn), MAX_TRACE_CHARS)
            /\ KeepsTrailing(observation.result, WrittenResult(fnIn), MAX_RESULT_CHARS)

\* A long failure message cut both the trace and the result, after the trace
\* had been cut before.
C14_Witness ==
    /\ Len(fnIn) = 3
    /\ fnIn[1].op = "appendLiveTaskTrace"
    /\ fnIn[1].msg.chars = MAX_TRACE_CHARS - 1
    /\ fnIn[2].op = "setLiveTaskResult"
    /\ fnIn[3].op = "markLiveTaskFailed"
    /\ fnIn[3].msg.chars = MAX_RESULT_CHARS + 1
    /\ runs[1].observations[RegistryTask.taskId].trace[1] = TruncationMarker
    /\ runs[1].observations[RegistryTask.taskId].result[1] = TruncationMarker

(***************************************************************************)
(*                 PROPERTIES OF THE ORCHESTRATION STORE                   *)
(***************************************************************************)

\* The ordering that is shown: the live one when it has tasks.
RelevantOrder ==
    IF ui.liveTaskObservationOrder # <<>> THEN ui.liveTaskObservationOrder
    ELSE ui.taskObservationOrder

\* C15: the focus is main or a task of the ordering that is shown, in every
\* state of the store.
C15_FocusInRelevantOrder ==
    ui.focus = Main \/ ui.focus \in Range(RelevantOrder)

RECURSIVE NextTimes(_, _)
NextTimes(u, n) == IF n = 0 THEN u ELSE NextTimes(focusNextTask(u), n - 1)

TaskCount == Len(RelevantOrder)

\* C16 as stated: from main, with tasks in the ordering that is shown,
\* taskCount times focusNextTask end on main.
C16_TaskCountStepsReturnToMain ==
    (ui.focus = Main /\ TaskCount > 0) => NextTimes(ui, TaskCount).focus = Main

\* C16: from main, with tasks in the ordering that is shown, the k-th
\* focusNextTask selects the k-th task, and the one after the last task
\* returns to main: taskCount + 1 steps, and no fewer.
C16_OneMoreStepReturnsToMain ==
    (ui.focus = Main /\ TaskCount > 0) =>
        /\ \A k \in 1..TaskCount : NextTimes(ui, k).focus = RelevantOrder[k]
        /\ NextTimes(ui, TaskCount + 1).focus = Main

\* focusNextTask has just gone from the last of two tasks to main.
C16_Witness ==
    /\ ui.op = "focusNextTask"
    /\ ui.focus = Main
    /\ TaskCount = 2

\* C17: while the live ordering has tasks, focusNextTask and focusPrevTask
\* select tasks of the live ordering only: from main the first and the last
\* of them, and never a task that is only in the finalized ordering.
C17_FocusFollowsLiveOrder ==
    [][LET live == ui.liveTaskObservationOrder
       IN  (live # <<>> /\ ui'.op \in {"focusNextTask", "focusPrevTask"}) =>
              /\ ui'.focus \in {Main} \cup Range(live)
              /\ (ui.focus = Main /\ ui'.op = "focusNextTask") => ui'.focus = live[1]
              /\ (ui.focus = Main /\ ui'.op = "focusPrevTask") => ui'.focus = live[Len(live)]
      ]_vars

\* focusNextTask selected the first of two live tasks, which is not a
\* finalized task, while other tasks are finalized.
C17_Witness ==
    /\ ui.op = "focusNextTask"
    /\ Len(ui.liveTaskObservationOrder) = 2
    /\ ui.taskObservationOrder # <<>>
    /\ ui.liveTaskObservationOrder[1] \notin Range(ui.taskObservationOrder)
    /\ ui.focus = ui.liveTaskObservationOrder[1]

\* C18: the mode becomes menu from input only, and menu is left for input
\* only.
C18_MenuOnlyFromAndToInput ==
    [][/\ (ui'.mode = "menu" /\ ui.mode # "menu") => ui.mode = "input"
       /\ (ui.mode = "menu" /\ ui'.mode # "menu") => ui'.mode = "input"]_vars

\* Call r is outstanding with its signal aborted.
AbortedIn(u, r, pc) ==
    r <= Len(u.activities) /\ u.activities[r].pc = pc /\ u.activities[r].aborted

\* Some call is outstanding with its signal aborted.
AbortedOutstanding ==
    \E r \in 1..Len(ui.activities) : AbortedIn(ui, r, "tool") \/ AbortedIn(ui, r, "arc")

\* C19 as stated: after abortResponse has aborted an outstanding call, the
\* mode becomes input.
C19_AbortLeadsToInput == AbortedOutstanding ~> (ui.mode = "input")

\* C19: abortResponse aborts the call whose controller the mode holds and
\* nothing else, and leaves the mode; an aborted tool run that settles leads
\* to input unless its error leaves runTool; an aborted engine call that
\* settles leads to input, or to the mode of the Finish or of the compaction
\* error it settles with; and an aborted call does settle.
C19_AbortedCallSettlesToInput ==
    /\ [][\A r \in 1..Len(ui.activities) :
            /\ (~ui.activities[r].aborted /\ ui'.activities[r].aborted) =>
                  /\ ui.mode \in {"responding", "compacting", "diff-apply", "fix-json",
                                  "tool-waiting"}
                  /\ ui.abortController = ui.activities[r].controller
                  /\ ui'.mode = ui.mode
            /\ (AbortedIn(ui, r, "tool") /\ ui'.activities[r].pc # "tool") =>
                  (ui'.mode = "input" \/ ui'.op = "thrown")
            /\ (AbortedIn(ui, r, "arc") /\ ui'.activities[r].pc # "arc") =>
                  \/ ui'.mode = "input"
                  \/ ui'.op = "request-tool" /\ ui'.mode = "tool-request"
                  \/ ui'.op = "request-error" /\ ui'.mode = "request-error"
                  \/ ui'.mode = "compaction-error"
         ]_vars
    /\ AbortedOutstanding ~> ~AbortedOutstanding

\* The abort test after an aborted tool run or engine call set the mode to
\* input.
C19_Witness ==
    /\ ui.op = "_maybeHandleAbort"
    /\ ui.mode = "input"

\* C20: when trajectoryArc returns a Finish, the mode becomes input for
\* needs-response and abort, request-error for request-error, and
\* tool-request with the tool call of the Finish for request-tool.
C20_FinishDecidesMode ==
    [][/\ ui'.op \in {"needs-response", "abort"} =>
              (ui'.mode = "input" /\ ui'.toolReq = NoRequest)
       /\ ui'.op = "request-error" => ui'.mode = "request-error"
       /\ ui'.op = "request-tool" =>
              /\ ui'.mode = "tool-request"
              /\ \E r \in 1..Len(ui.activities) :
                    /\ ui.activities[r].pc = "arc"
                    /\ ui'.activities[r].pc = "done"
                    /\ ui'.toolReq.toolCallId = r
      ]_vars

\* A Finish with a call of the task tool was returned.
C20_Witness ==
    /\ ui.op = "request-tool"
    /\ ui.mode = "tool-request"
    /\ ui.toolReq.tasks # <<>>

\* The modes an engine call shows while it runs.
InFlightModes == {"responding", "compacting", "fix-json", "diff-apply"}

\* The call whose controller the mode holds is outstanding.
ModeCallRunning ==
    \E r \in Running : ui.activities[r].controller = ui.abortController

\* C21: the mode is compacting, fix-json, diff-apply or responding only
\* while the engine call that set it is outstanding: once that call has
\* returned a Finish or thrown, the mode is none of them.
C21_InFlightModeHasRunningCall ==
    ui.mode \in InFlightModes => ModeCallRunning

(***************************************************************************)
(*            PROPERTIES OF THE HISTORY OF THE STORE                       *)
(***************************************************************************)

\* The step is name(mode).
HistoryOp(name) == hist'.op[1] = name
GivenMode == hist'.op[2]

\* The place of the recorded last user prompt in the history, if any.
PromptPlaces ==
    {k \in 1..Len(hist.history) : hist.history[k].id = hist.lastUserPromptId}

\* The step drops the history back to before place k and puts the text of
\* the item at k into the composer.
DropsBackTo(k) ==
    /\ hist'.history = SubSeq(hist.history, 1, k - 1)
    /\ hist'.query = hist.history[k].content
    /\ hist'.mode = "input"

\* The step changes nothing in the store.
StoreUntouched ==
    /\ hist'.history = hist.history
    /\ hist'.query = hist.query
    /\ hist'.mode = hist.mode
    /\ hist'.calls = hist.calls
    /\ hist'.lastUserPromptId = hist.lastUserPromptId

\* retryFrom starts a call only in the mode it is given.
RetryOnlyInGivenMode ==
    (HistoryOp("retryFrom") /\ hist'.calls # hist.calls) => hist.mode = GivenMode

\* C22 as stated: editAndRetryFrom in the mode it is given, with a last user
\* prompt recorded, drops the history back to before that prompt and puts its
\* text into the composer; in another mode it changes nothing; retryFrom
\* starts a call only in the mode it is given.
C22_EditDropsRecordedPrompt ==
    [][/\ (HistoryOp("editAndRetryFrom") /\ hist.mode = GivenMode
              /\ hist.lastUserPromptId # NullId) =>
              \E k \in PromptPlaces : DropsBackTo(k)
       /\ (HistoryOp("editAndRetryFrom") /\ hist.mode # GivenMode) => StoreUntouched
       /\ RetryOnlyInGivenMode
      ]_vars

\* C22: editAndRetryFrom in the mode it is given drops the history back to
\* before the recorded last user prompt and puts its text into the composer
\* when that prompt is an item of the history; when no prompt is recorded or
\* the recorded one is not in the history, it keeps the history and empties
\* the composer; the mode becomes input either way.  In another mode it
\* changes nothing, and retryFrom starts a call only in the mode it is given.
C22_EditDropsPromptInHistory ==
    [][/\ (HistoryOp("editAndRetryFrom") /\ hist.mode = GivenMode) =>
              IF PromptPlaces # {}
              THEN \E k \in PromptPlaces : DropsBackTo(k)
              ELSE /\ hist'.history = hist.history
                   /\ hist'.query = <<"", 0>>
                   /\ hist'.mode = "input"
       /\ (HistoryOp("editAndRetryFrom") /\ hist.mode # GivenMode) => StoreUntouched
       /\ RetryOnlyInGivenMode
      ]_vars

\* editAndRetryFrom has put the text of the second prompt into the composer
\* and kept the first turn.
C22_Witness ==
    /\ hist.op[1] = "editAndRetryFrom"
    /\ hist.mode = "input"
    /\ hist.query[1] = "query"
    /\ hist.history # <<>>
    /\ hist.query[2] > hist.history[Len(hist.history)].id

(***************************************************************************)
(*      PROPERTIES OF THE END OF THE MODEL TURN (TRAJECTORY ARC ENGINE)    *)
(***************************************************************************)

\* The innermost invocation after the step.
TopAfter == stack'[Len(stack')]

\* The step is the return of run() to the innermost invocation.
TurnReturns == ArcRunning /\ Top.pc = "running" /\ stack' # stack

\* The items maybeBufferedMessage can synthesize for the innermost invocation.
SynthesizedItems == {Item("assistant", Depth, BufferInfo(buffer)) : buffer \in Buffers}

\* The output is the accumulated output of the invocation, with nothing
\* added or with one synthesized item after it.
AccumulatedThenBuffered(irs) ==
    \/ irs = Top.irs
    \/ \E item \in SynthesizedItems : irs = Append(Top.irs, item)

\* The step emits no retryTool and starts no invocation.
NoRetry ==
    /\ retryTools' = retryTools
    /\ invocations' = invocations
    /\ Len(stack') = Len(stack)
    /\ events' = events

\* C23: when the backend call failed or returned no output item, the arc
\* returns request-error with its accumulated output (a compaction checkpoint
\* included), followed by the synthesized item if a buffer is non-empty, and
\* does not retry.
C23_FailedRequestKeepsOutput ==
    [][(TurnReturns /\ TopAfter.finish.reason = "request-error"
           /\ TopAfter.finish.detail \in {"backend", "No response from backend"}) =>
          /\ TopAfter.pc = "returned"
          /\ AccumulatedThenBuffered(TopAfter.finish.irs)
          /\ NoRetry
      ]_vars

\* C24: when the signal is aborted as the model turn returns, the arc returns
\* abort with its accumulated output, followed by one synthesized item if a
\* buffer is non-empty and by nothing otherwise; it does not validate a tool
\* call, emit retryTool or recurse.
C24_AbortedTurnKeepsOutput ==
    [][(TurnReturns /\ aborted) =>
          /\ TopAfter.pc = "returned"
          /\ TopAfter.finish.reason = "abort"
          /\ AccumulatedThenBuffered(TopAfter.finish.irs)
          /\ NoRetry
      ]_vars

(***************************************************************************)
(*                   PROPERTIES OF THE TOKEN BUFFERS                       *)
(***************************************************************************)

\* The concatenation of the deltas of this type, in the order of the stream.
RECURSIVE Streamed(_, _)
Streamed(deltas, type) ==
    IF deltas = <<>> THEN <<>>
    ELSE (IF deltas[1].type = type THEN deltas[1].value ELSE <<>>)
         \o Streamed(Tail(deltas), type)

TokenBuffer(type) == fnOut[1].buffer[type]

\* C25: each buffer is the concatenation of the deltas of its type, cut to
\* the cap of the type: never longer than the cap, always a prefix of what
\* was streamed, with everything behind the cap dropped; and there is one
\* responseProgress event for every delta.
C25_BuffersAreCappedPrefixes ==
    /\ \A type \in AllTokenTypes :
          /\ TextLength(TokenBuffer(type)) <= bufferCap(type)
          /\ type = "reasoning" => TextLength(TokenBuffer(type)) <= 200000
          /\ type # "reasoning" => TextLength(TokenBuffer(type)) <= 500000
          /\ TokenBuffer(type) =
                 TakeChars(Streamed(fnIn, type), TextLength(TokenBuffer(type)))
          /\ TextLength(TokenBuffer(type)) < bufferCap(type) =>
                 TokenBuffer(type) = Streamed(fnIn, type)
    /\ fnOut[1].progress = Len(fnIn)

\* A delta was cut to fill the reasoning buffer and a later reasoning delta
\* was dropped.
C25_Witness ==
    /\ Len(fnIn) = 3
    /\ fnIn[3].type = "reasoning" /\ fnIn[3].value # <<>>
    /\ TextLength(TokenBuffer("reasoning")) = bufferCap("reasoning")
    /\ Len(TokenBuffer("reasoning")) = 2
    /\ TokenBuffer("reasoning")[2].hi < TokenBuffer("reasoning")[2].msg.chars

(***************************************************************************)
(*          PROPERTIES OF THE EVENTS OF ONE ARC INVOCATION                 *)
(***************************************************************************)

CompactionEvents == {"startCompaction", "compactionProgress", "compactionParsed"}

\* The places of the events of these types among those of the innermost
\* invocation.
Places(types) == {i \in 1..Len(events) : events[i] \in types}

\* C26: among the events of one arc invocation, every compaction event
\* comes before startResponse and every responseProgress after it;
\* startCompaction and startResponse occur at most once, and compactionParsed
\* only after startCompaction.
C26_CompactionEventsPrecedeResponse ==
    /\ \A i \in Places(CompactionEvents) :
          \A j \in Places({"startResponse", "responseProgress"}) : i < j
    /\ \A j \in Places({"responseProgress"}) :
          \E i \in Places({"startResponse"}) : i < j
    /\ Cardinality(Places({"startCompaction"})) <= 1
    /\ Cardinality(Places({"startResponse"})) <= 1
    /\ \A j \in Places({"compactionParsed"}) :
          \E i \in Places({"startCompaction"}) : i < j

\* An invocation compacted with progress and a parsed checkpoint, then
\* started its response and streamed.
C26_Witness ==
    events = <<"startCompaction", "compactionProgress", "compactionParsed",
               "startResponse", "responseProgress">>

(***************************************************************************)
(*              PROPERTIES OF THE AUTOFIX OF AN EDIT CALL                  *)
(***************************************************************************)

\* The autofix pass of the innermost invocation ends in this step.
AutofixEnds == ArcRunning /\ Top.pc = "autofixing" /\ stack' # stack

\* The innermost invocation gets to the Finish that requests its tool call.
RequestsTool ==
    /\ ArcRunning /\ Top.pc \notin {"returned", "retrying"}
    /\ Len(stack') = Len(stack)
    /\ TopAfter.finish.reason = "request-tool"

\* C27: an edit call whose validation failed with a tool error and whose
\* autofix passed validation is requested with the fixed arguments and the
\* output so far, with no retryTool, no recursion and the budget as it was
\* (0 included); the autofix is announced at most once per invocation and
\* only for the edit tool, and on every other path the requested call has
\* the arguments the model wrote.
C27_AutofixedEditIsRequested ==
    [][ /\ (AutofixEnds /\ RequestsTool) =>
              /\ TopAfter.finish.args = "fixed"
              /\ TopAfter.finish.tool = "edit"
              /\ TopAfter.finish.irs = Top.irs
              /\ TopAfter.retryBudget = Top.retryBudget
              /\ events' = events
              /\ retryTools' = retryTools
              /\ invocations' = invocations
        /\ (AutofixEnds /\ ~aborted) =>
              \/ RequestsTool
              \/ TopAfter.ended = "toolerr" \/ stack'[Len(stack)].ended = "toolerr"
        /\ (RequestsTool /\ ~AutofixEnds) => TopAfter.finish.args = "original"
        /\ (ArcRunning /\ Top.pc = "autofixing") =>
              /\ Top.tool = "edit"
              /\ Top.ended = "none"
        /\ Cardinality({i \in 1..Len(events') : events'[i] = "autofixingDiff"}) <= 1
      ]_vars

\* An invocation with no budget left returned the request of its edit call
\* with the fixed arguments.
C27_Witness ==
    /\ ArcRunning /\ Top.pc = "returned"
    /\ Top.retryBudget = 0
    /\ Top.finish.reason = "request-tool"
    /\ Top.finish.args = "fixed"
    /\ Top.finish.tool = "edit"
    /\ events[Len(events)] = "autofixingDiff"

(***************************************************************************)
(*        PROPERTIES OF THE WIRE TEXT OF THE DELEGATION OBSERVATIONS       *)
(***************************************************************************)

\* The three key lines of the block have values.
HasAllKeys(block) ==
    block.id = "value" /\ block.subagent = "value" /\ block.description = "value"

\* C28: the parser returns no observation for a block that lacks a
\* non-empty task_id, task_subagent or task_description; for a block with
\* all three it returns the observation of these values, whose trace and
\* result are empty when their tags are missing or enclose only white space.
C28_ParserNeedsTheThreeKeys ==
    (fnOut # <<>> /\ fnIn.op = "block") =>
        LET block == fnIn.block
            o == fnOut[1].parsed[1]
        IN  /\ ~HasAllKeys(block) => o = NoObservation
            /\ HasAllKeys(block) =>
                  /\ o.taskId = TaskIdText(1)
                  /\ o.subagentName = SubagentText
                  /\ o.description = DescriptionText
                  /\ block.trace # "content" => o.trace = <<>>
                  /\ block.result # "content" => o.result = <<>>

\* C29: parsing the output built for one observation returns that
\* observation, and parsing the output built for a batch returns the list of
\* its observations in order.
C29_ParsingInvertsBuilding ==
    (fnOut # <<>> /\ fnIn.op \in {"single", "batch"}) =>
        fnOut[1].parsed = fnIn.observations

\* The built field when the text is over the cap: the marker and the last
\* `cap` characters of the text, in either order.
TailKept(built, text, cap) ==
    TextLength(text) > cap =>
        LET tail == DropChars(text, TextLength(text) - cap) IN
        built \in {<<TruncationMarker>> \o tail, tail \o <<TruncationMarker>>}

\* C30: a trace or result over its cap (4,000 / 2,000 in a single result,
\* 3,000 / 1,500 in a batch) is written as its last `cap` characters with a
\* truncation marker.
C30_BuiltFieldsKeepTail ==
    (fnOut # <<>> /\ fnIn.op \in {"single", "batch"}) =>
        \A k \in 1..Len(fnIn.observations) :
            LET o == fnIn.observations[k]
                block == fnOut[1].content.blocks[k]
                single == fnIn.op = "single"
            IN  /\ TailKept(block.trace, o.trace,
                            IF single THEN SINGLE_TRACE_CHARS ELSE PARALLEL_TRACE_CHARS)
                /\ TailKept(block.result, o.result,
                            IF single THEN SINGLE_RESULT_CHARS ELSE PARALLEL_RESULT_CHARS)

(***************************************************************************)
(*        PROPERTIES OF THE LIVE PROGRESS OF A DELEGATION CALL             *)
(***************************************************************************)

LiveWrites == {"appendLiveTaskTrace", "setLiveTaskResult", "markLiveTaskFailed"}

\* This step is a registry operation.
Operates == poll'.ops = poll.ops + 1

\* This step writes to a task that the run of its tool-call id does not
\* have (the run may not exist).
WritesUnknown ==
    /\ Operates
    /\ poll'.op.name \in LiveWrites
    /\ \/ poll'.op.toolCallId \notin DOMAIN runs
       \/ poll'.op.taskId \notin DOMAIN runs[poll'.op.toolCallId].observations

EmptyRun == [order |-> <<>>, observations |-> EmptyMap, updatedAt |-> clock]

\* C31 as stated: a write to an unknown task leaves the registry unchanged.
C31_UnknownTaskLeavesRegistry ==
    [][WritesUnknown => runs' = runs]_vars

\* C31: appendLiveTaskTrace, setLiveTaskResult and markLiveTaskFailed for a
\* task id that the run of the tool-call id does not have leave the registry
\* unchanged when that run exists; when there is no run for the tool-call id
\* they add an empty run for it and leave every other run unchanged.
C31_UnknownTaskLeavesExistingRun ==
    [][WritesUnknown =>
          IF poll'.op.toolCallId \in DOMAIN runs THEN runs' = runs
          ELSE runs' = Put(runs, poll'.op.toolCallId, EmptyRun)]_vars

\* A result was set for an unknown task of the started run, after the time
\* of its stamp.
C31_Witness ==
    /\ poll.op = LiveOp("setLiveTaskResult", LiveCall, UnknownTaskId)
    /\ LiveCall \in DOMAIN runs
    /\ runs[LiveCall].order = <<LiveTask.taskId>>
    /\ runs[LiveCall].updatedAt < clock

\* C32: appendLiveTaskTrace for a tool-call id without a run makes an empty
\* run for it: the snapshot is non-null with an empty order and no
\* observations, and a run made so stays so until clearLiveTaskRun.
C32_AppendMakesEmptyRun ==
    [][ /\ (Operates /\ poll'.op.name = "appendLiveTaskTrace"
              /\ poll'.op.toolCallId \notin DOMAIN runs) =>
                 /\ getLiveTaskRun(runs', poll'.op.toolCallId) = <<EmptyRun>>
                 /\ poll'.op.toolCallId \in poll'.created
        /\ \A toolCallId \in poll'.created :
              /\ getLiveTaskRun(runs', toolCallId) # Null
              /\ runs'[toolCallId].order = <<>>
              /\ runs'[toolCallId].observations = EmptyMap
        /\ (Operates /\ poll'.op.name # "clearLiveTaskRun") =>
              poll.created \subseteq poll'.created
      ]_vars

\* An append made a run for the id no call started and, after the run of the
\* delegation call was cleared, one for its id.
C32_Witness ==
    /\ poll.created = {LiveCall, OtherCall}
    /\ poll.started
    /\ poll.op = LiveOp("appendLiveTaskTrace", LiveCall, LiveTask.taskId)
    /\ runs[LiveCall].observations = EmptyMap

\* This step is a tick of the poll.
Ticks == poll'.op.name = "syncLiveProgress" /\ clock' = clock /\ runs' = runs

\* What the poll holds of the store.
Published(p) ==
    <<p.lastLiveUpdate, p.liveTaskObservations, p.liveTaskObservationOrder>>

InFlight(task) == ~Settled(task)

\* C33: two tasks in flight at the same time never run their loops against
\* the same TaskSession object: no two unsettled tasks of the running call
\* hold the same session.
C33_OneLoopPerSession ==
    \A j, k \in 1..Len(call.tasks) :
        (j # k /\ InFlight(call.tasks[j]) /\ InFlight(call.tasks[k]))
            => call.tasks[j].session # call.tasks[k].session

\* C37: the planned task ids of a call that passed validation are pairwise
\* distinct.
C37_PlannedTaskIdsDistinct ==
    \A j, k \in 1..Len(call.tasks) :
        j # k => call.tasks[j].entry.taskId # call.tasks[k].entry.taskId

(*------------------ C35: THE LOOP OF runSubagentUntilPause ----------------*)

\* A step of task k of the running call from the place pc of its loop.
LoopStep(k, pc) ==
    /\ call.pc = "running"
    /\ call'.toolCallId = call.toolCallId
    /\ k \in 1..Len(call.tasks)
    /\ call.tasks[k].pc = pc
    /\ call'.tasks[k] # call.tasks[k]

HistoryOf(task) == heap[task.session].history

\* The tool result extends the history by one tool-output or tool-failed
\* item, and the loop goes on to the next arc unless the signal is set:
\* then it throws and the task has started its last arc.
ToolResultAppended(k) ==
    LET before == HistoryOf(call.tasks[k])
        after == (HistoryOf(call.tasks[k]))'
    IN  /\ Len(after) = Len(before) + 1
        /\ SubSeq(after, 1, Len(before)) = before
        /\ after[Len(after)].type \in {"tool-output", "tool-failed"}
        /\ call'.tasks[k].arcs = call.tasks[k].arcs
        /\ call'.tasks[k].pc = (IF call.aborted THEN "rejected" ELSE "key")

\* An arc ends in the tool it requested, in a return or in a throw; the
\* tool is run exactly when the arc left a tool request as the last item.
ArcEnds(k) ==
    LET before == HistoryOf(call.tasks[k])
        after == (HistoryOf(call.tasks[k]))'
        requested == Len(after) > Len(before) /\ after[Len(after)].type = "tool"
    IN  /\ call'.tasks[k].pc \in {"tool", "fulfilled", "rejected"}
        /\ call'.tasks[k].arcs = call.tasks[k].arcs + 1
        /\ (call'.tasks[k].pc = "tool") <=> requested

PlannedIdOf(cl, k) ==
    IF cl.args.parallel_tasks[k].task_id # NoId THEN cl.args.parallel_tasks[k].task_id
    ELSE <<"task", cl.toolCallId, k - 1>>

\* C36: the content a batch returns has the number of its invocations as
\* count and one block per invocation, in the order of the invocations
\* whatever the order the tasks settled in; the block of invocation k
\* carries the task id planned for it, its subagent and its description,
\* be the task fulfilled or failed.
C36_BatchBlocksFollowInvocations ==
    (IsBatch /\ call.pc = "returned") =>
        /\ call.content.count = Len(call.args.parallel_tasks)
        /\ Len(call.content.blocks) = Len(call.args.parallel_tasks)
        /\ \A k \in 1..Len(call.args.parallel_tasks) :
              /\ call.content.blocks[k].taskId = PlannedIdOf(call, k)
              /\ call.content.blocks[k].subagentName =
                     call.args.parallel_tasks[k].subagent_type
              /\ call.content.blocks[k].description =
                     call.args.parallel_tasks[k].description

\* The second task failed before the first returned: the tasks settled
\* against the order of the batch.
C36_Witness ==
    /\ IsBatch
    /\ call.pc = "returned"
    /\ Len(call.tasks) = 2
    /\ call.tasks[1].pc = "fulfilled"
    /\ call.tasks[2].pc = "rejected"
    /\ call.settled = <<2, 1>>
    /\ call.content.count = 2
    /\ call.content.blocks[2].taskId = call.tasks[2].entry.taskId

(*------------------ C34: clearHistory AND THE CALLS IN FLIGHT -------------*)

\* C34: after clearHistory, once every call of _runAgent has settled, the
\* history is empty as long as the user has not acted on the conversation.
C34_ClearedHistoryStaysEmpty ==
    (hist.cleared /\ \A c \in 1..Len(hist.calls) : hist.calls[c].pc = "done")
        => hist.history = <<>>

(*------------------ C38, C39: THE END OF A TOOL RUN -----------------------*)

\* Call r was running a tool and its runTool ends in this step, by a return
\* or by an error that leaves it.
ToolRunEnds(r) ==
    /\ r \in 1..Len(ui.activities)
    /\ ui.activities[r].pc = "tool"
    /\ ui'.activities[r].pc # "tool"

DelegationRunEnds(r) == ToolRunEnds(r) /\ Len(ui.activities[r].toolReq.tasks) > 0

\* C39: when the run of a delegation tool call has ended, on whatever path
\* (an output with or without observations, a tool error, an abort), the
\* live ordering is empty and the focus is main or a task of the finalized
\* ordering.
C39_NoLiveFocusAfterDelegation ==
    [][\A r \in 1..MaxCalls :
          DelegationRunEnds(r) =>
              /\ ui'.liveTaskObservationOrder = <<>>
              /\ ui'.focus = Main \/ IndexOf(ui'.taskObservationOrder, ui'.focus) > 0]_vars

\* The step that starts a tool run.
ToolRunStarts == ui'.op = "runTool" /\ ui' # ui

\* What follows the item of a settled tool: the abort test sends an aborted
\* run to input mode and ends it; any other run calls _runAgent.
EngineFollows(r) ==
    IF ui.activities[r].aborted
    THEN ui'.mode = "input" /\ ui'.activities[r].pc = "done"
    ELSE ui'.mode = ui.mode /\ ui'.activities[r].pc = "loading"

OneItemAppended(r) ==
    /\ ui'.appended.type \in {"tool-output", "tool-failed"}
    /\ ui'.appended.toolCallId = ui.activities[r].toolReq.toolCallId

====
